---------------------------- MODULE Spec2Model ----------------------------
(***************************************************************************)
(* Model of copy_adventureworks_data.py: the per-table transfer functions  *)
(* (copy_data_mssql_to_pg / _mysql / _sqlite / _mssql and their batch      *)
(* loops), the page-text parser and the per-column literal serialization.  *)
(*                                                                         *)
(* Text is modelled as a sequence of one-character strings.  A statement   *)
(* sent to a database is answered by the environment with a status: "ok"   *)
(* (return code 0, the statement took effect) or "fail" (nonzero return    *)
(* code, no effect).                                                       *)
(***************************************************************************)
EXTENDS Integers, Sequences, FiniteSets, TLC

-----------------------------------------------------------------------------
(* Program constants *)

\* batch_size = 1000 (page size of the OFFSET/FETCH loop)
batch_size == 1000

\* insert_batch_size = 200 (tuples per INSERT statement)
insert_batch_size == 200

-----------------------------------------------------------------------------
(* Bounds of the model *)

\* source tables hold up to MaxPages pages of rows
MaxPages == 2

\* rows left in the target by an earlier, interrupted run
StaleRows == 1

\* data rows of a table that the line filter of the parser drops
MaxDropped == 1

\* line breaks inside the wrapped row of a page
MaxBreaks == 1

\* characters of a field value
MaxValueLen == 2

-----------------------------------------------------------------------------
(* Small helpers *)

Min(a, b) == IF a < b THEN a ELSE b

Max(a, b) == IF a > b THEN a ELSE b

CeilDiv(a, b) == (a + b - 1) \div b

Dialects == {"pg", "mysql", "sqlite", "mssql"}

BatchDialects == {"pg", "mysql", "sqlite"}

-----------------------------------------------------------------------------
(* Column lists returned by get_table_definition_mssql.  None is the empty *)
(* text: every use of max_length / precision / scale in the program is     *)
(* guarded by its truthiness, under which None and '' are the same.        *)

None == <<>>

Column(name, data_type, is_nullable, max_length, precision, scale, is_pk, is_identity) ==
    [name |-> name, data_type |-> data_type, is_nullable |-> is_nullable,
     max_length |-> max_length, precision |-> precision, scale |-> scale,
     is_pk |-> is_pk, is_identity |-> is_identity]

\* (ID int identity PK, Name nvarchar(50) NOT NULL, Flag bit NULL)
TableIdentity ==
    << Column("ID", "int", FALSE, None, <<"1", "0">>, <<"0">>, TRUE, TRUE),
       Column("Name", "nvarchar", FALSE, <<"5", "0">>, None, None, FALSE, FALSE),
       Column("Flag", "bit", TRUE, None, None, None, FALSE, FALSE) >>

\* source row counts: around the chunk and the page boundaries
RowCounts ==
    {0} \cup {p * batch_size + r : p \in 0..(MaxPages - 1),
                                   r \in {1, insert_batch_size + 1, batch_size}}

-----------------------------------------------------------------------------
(* Text: sequences of one-character strings *)

\* str.lower() on one character
LowerChar(c) ==
    CASE c = "A" -> "a"
      [] c = "B" -> "b"
      [] c = "C" -> "c"
      [] c = "D" -> "d"
      [] c = "E" -> "e"
      [] c = "F" -> "f"
      [] c = "G" -> "g"
      [] c = "H" -> "h"
      [] c = "I" -> "i"
      [] c = "J" -> "j"
      [] c = "K" -> "k"
      [] c = "L" -> "l"
      [] c = "M" -> "m"
      [] c = "N" -> "n"
      [] c = "O" -> "o"
      [] c = "P" -> "p"
      [] c = "Q" -> "q"
      [] c = "R" -> "r"
      [] c = "S" -> "s"
      [] c = "T" -> "t"
      [] c = "U" -> "u"
      [] c = "V" -> "v"
      [] c = "W" -> "w"
      [] c = "X" -> "x"
      [] c = "Y" -> "y"
      [] c = "Z" -> "z"
      [] OTHER -> c

\* str.lower()
Lower(text) == [i \in 1..Len(text) |-> LowerChar(text[i])]

\* the test `word in text`
ContainsSub(text, word) ==
    \E i \in 1..(Len(text) - Len(word) + 1) : SubSeq(text, i, i + Len(word) - 1) = word

\* str.startswith
StartsWith(text, word) ==
    Len(text) >= Len(word) /\ SubSeq(text, 1, Len(word)) = word

TAB == "\t"

IsSpace(c) == c \in {" ", "\t", "\r", "\n"}

\* str.strip()
Strip(text) ==
    LET keep == {i \in 1..Len(text) : ~IsSpace(text[i])} IN
    IF keep = {} THEN <<>>
    ELSE SubSeq(text, CHOOSE i \in keep : \A j \in keep : i <= j,
                      CHOOSE i \in keep : \A j \in keep : i >= j)

\* str.count(c)
CountChar(text, c) == Cardinality({i \in 1..Len(text) : text[i] = c})

\* str.split(c)
RECURSIVE Split(_, _)
Split(text, c) ==
    LET at == {i \in 1..Len(text) : text[i] = c} IN
    IF at = {} THEN <<text>>
    ELSE LET i == CHOOSE k \in at : \A j \in at : k <= j IN
         <<SubSeq(text, 1, i - 1)>> \o Split(SubSeq(text, i + 1, Len(text)), c)

\* c.join(parts)
RECURSIVE Join(_, _)
Join(parts, c) ==
    IF parts = <<>> THEN <<>>
    ELSE IF Len(parts) = 1 THEN parts[1]
    ELSE parts[1] \o <<c>> \o Join(Tail(parts), c)

-----------------------------------------------------------------------------
(* Diagnostic texts a target may return together with a nonzero status *)

DiagDuplicateKey == <<"D", "u", "p", "l", "i", "c", "a", "t", "e", " ", "k", "e", "y">>

DiagUniqueConstraint == <<"U", "N", "I", "Q", "U", "E", " ", "c", "o", "n", "s", "t", "r", "a", "i", "n", "t", " ", "f", "a", "i", "l", "e", "d">>

\* the target's rejection of a NULL in a NOT NULL column named KeyID
DiagColumnNull == <<"C", "o", "l", "u", "m", "n", " ", "'", "K", "e", "y", "I", "D", "'", " ",
                    "c", "a", "n", "n", "o", "t", " ", "b", "e", " ", "n", "u", "l", "l">>

DiagTimeout == <<"T", "i", "m", "e", "o", "u", "t">>

\* what the command of dialect d can print when a statement fails; "Timeout" is
\* the text run_sql_* returns itself
Diagnostics(d) ==
    CASE d = "mysql" -> {DiagDuplicateKey, DiagColumnNull, DiagTimeout}
      [] d = "sqlite" -> {DiagUniqueConstraint, DiagTimeout}
      [] OTHER -> {DiagDuplicateKey, DiagTimeout}

W_duplicate_key == <<"d", "u", "p", "l", "i", "c", "a", "t", "e", " ", "k", "e", "y">>

W_conflict == <<"c", "o", "n", "f", "l", "i", "c", "t">>

W_duplicate == <<"d", "u", "p", "l", "i", "c", "a", "t", "e">>

W_key == <<"k", "e", "y">>

W_UNIQUE_constraint == <<"U", "N", "I", "Q", "U", "E", " ", "c", "o", "n", "s", "t", "r", "a", "i", "n", "t">>

\* copy_data_mssql_to_pg_alternative: the test that sends a failed INSERT to the
\* error branch
PgUnrecognized(insert_result) ==
    /\ ~ContainsSub(Lower(insert_result), W_duplicate_key)
    /\ ~ContainsSub(Lower(insert_result), W_conflict)

\* copy_data_mssql_to_mysql_batch: the same test
MysqlUnrecognized(insert_result) ==
    /\ ~ContainsSub(Lower(insert_result), W_duplicate)
    /\ ~ContainsSub(Lower(insert_result), W_key)

\* copy_data_mssql_to_sqlite_batch: the same test; the second needle keeps its
\* capitals while the text is lowered
SqliteUnrecognized(insert_result) ==
    /\ ~ContainsSub(Lower(insert_result), W_duplicate)
    /\ ~ContainsSub(Lower(insert_result), W_UNIQUE_constraint)

Unrecognized(d, insert_result) ==
    CASE d = "pg" -> PgUnrecognized(insert_result)
      [] d = "mysql" -> MysqlUnrecognized(insert_result)
      [] OTHER -> SqliteUnrecognized(insert_result)

-----------------------------------------------------------------------------
(* State of one transfer *)

VARIABLES
    dialect,        \* the target dialect of the job
    srcTable,       \* the column list of the source table
    srcRows,        \* number of rows of the source table
    srcDropped,     \* rows of its first page that the line filter of the parser drops
    tgtExists,      \* the target table exists
    tgtStale,       \* rows of the target left by an earlier run
    tgtNew,         \* rows of the target inserted by this transfer
    tgtInitial,     \* rows of the target when the transfer started
    envFault,       \* some statement of this transfer returned a nonzero status
    pc,             \* position in the transfer function
    jobState,       \* Pending, Copying, Skipped, Completed, Failed
    result,         \* the returned pair (success, rows copied)
    columns,        \* local: columns
    table_exists,   \* local: table_exists
    total_rows,     \* local: total_rows
    offset,         \* local: offset
    copied_count,   \* local: copied_count
    batch,          \* local: len(batch_values) of the current page
    batch_start,    \* local: batch_start of the chunk loop
    pageChunks,     \* slices [batch_start:batch_end] sent for the current page
    fetched,        \* offsets of the pages requested from the source
    issued,         \* statements sent so far, by kind
    insert_code,    \* status of the last INSERT of the page loop ("none" before it)
    insert_result,  \* its diagnostic text
    data_result,    \* text of the page returned by the source
    unread,         \* physical lines of the page not yet looked at
    current_line,   \* fragments kept for the next physical line
    lines,          \* lines taken as complete
    rows,           \* rows parsed from the page
    logicalRows,    \* rows the source serialized into the page
    wrapped,        \* the row the source hard-wrapped, and after which characters
    col,            \* the column a field belongs to
    val,            \* the field, as parsed from the page
    literal,        \* the text put for the field into the VALUES list
    section,        \* __main__: the target whose tables are being copied
    step,           \* __main__: position inside the section
    all_tables,     \* __main__: the tables of the section, as listed from the source
    table_index,    \* __main__: position of the running loop in its list
    success_tables, \* __main__: tables whose structure was created
    failed_tables,  \* __main__: tables whose structure was not created
    total_copied,   \* __main__: rows copied by the transfers that returned success
    total_failed,   \* __main__: transfers that returned failure
    introspected,   \* tables of the section given to get_table_definition_mssql
    started,        \* tables of the section whose transfer was called
    job,            \* state of the transfer called last
    resolveArgs,    \* arguments of one call of a type resolver
    declared,       \* the type declaration it returned
    statements,     \* statements sent to the target by one create_table call
    created,        \* the success flag the call returned
    batch_values,   \* the value tuples built from the rows of one page
    tied,           \* source rows lo..hi hold the same value in the first key column
    order_by_col,   \* local: order_by_col
    pages,          \* the rows each page query returned, in the order returned
    script,         \* the statements of the INSERTs a transfer sent, in order
    ran,            \* how many statements of the last script the target executed
    identity_insert \* IDENTITY_INSERT of the target table in the session of the script

vars == <<dialect, srcTable, srcRows, srcDropped, tgtExists, tgtStale, tgtNew, tgtInitial, envFault, pc, jobState, result,
          columns, table_exists, total_rows, offset, copied_count, batch, batch_start,
          pageChunks, fetched, issued, insert_code, insert_result,
          data_result, unread, current_line, lines, rows, logicalRows, wrapped,
          col, val, literal,
          section, step, all_tables, table_index, success_tables, failed_tables,
          total_copied, total_failed, introspected, started, job,
          resolveArgs, declared, statements, created, batch_values,
          tied, order_by_col, pages, script, ran, identity_insert>>

renderVars == <<col, val, literal>>

pageVars == <<data_result, unread, current_line, lines, rows, logicalRows, wrapped>>

\* the variables of __main__
mainVars == <<section, step, all_tables, table_index, success_tables, failed_tables,
              total_copied, total_failed, introspected, started, job>>

\* what surrounds one call of a transfer function
\* one call of a type resolver
resolveVars == <<resolveArgs, declared>>

\* one call of a create_table function
ddlVars == <<statements, created>>

\* the value tuples of one page
tupleVars == <<batch_values>>

\* the page queries of one transfer
pagingVars == <<tied, order_by_col, pages>>

\* the INSERT statements of one transfer
scriptVars == <<script, ran, identity_insert>>

sideVars == <<mainVars, resolveVars, ddlVars, tupleVars, pagingVars, scriptVars>>

jobVars == <<dialect, srcTable, srcRows, srcDropped, tgtInitial, pageVars, renderVars, sideVars>>

targetVars == <<tgtExists, tgtStale, tgtNew>>

chunkVars == <<insert_code, insert_result>>

loopVars == <<offset, copied_count, batch, batch_start, pageChunks, fetched, chunkVars>>

NoStatements == [delete |-> 0, truncate |-> 0, insert |-> 0, ddl |-> 0, fetch |-> 0]

\* status of a statement that names the target table
ExecOutcomes(exists) == IF exists THEN {"ok", "fail"} ELSE {"fail"}

\* rows present in the target table
TargetCount == tgtStale + tgtNew

\* a return statement of the transfer function
Return(state, success, count) ==
    /\ pc' = "done"
    /\ jobState' = state
    /\ result' = [success |-> success, rows |-> count]

Goto(label) ==
    /\ pc' = label
    /\ UNCHANGED <<jobState, result>>

\* the environment's answer to one statement
Answered(code) == envFault' = (envFault \/ code = "fail")

\* no page is being parsed
NoPage ==
    /\ data_result = <<>>
    /\ unread = <<>>
    /\ current_line = <<>>
    /\ lines = <<>>
    /\ rows = <<>>
    /\ logicalRows = <<>>
    /\ wrapped = [row |-> 0, cuts |-> {}]

\* __main__ is not being followed
NoMain ==
    /\ section = "none"
    /\ step = "none"
    /\ all_tables = <<>>
    /\ table_index = 0
    /\ success_tables = <<>>
    /\ failed_tables = <<>>
    /\ total_copied = 0
    /\ total_failed = 0
    /\ introspected = <<>>
    /\ started = <<>>
    /\ job = "Pending"

\* no type resolver is being followed
NoResolve ==
    /\ resolveArgs = [mssql_type |-> <<>>, max_length |-> <<>>, precision |-> <<>>, scale |-> <<>>]
    /\ declared = <<>>

\* no create_table function is being followed
NoDDL ==
    /\ statements = <<>>
    /\ created = FALSE

\* no page is being turned into value tuples
NoTuples == batch_values = <<>>

\* no sequence of page queries is being followed
NoPaging ==
    /\ tied = [lo |-> 0, hi |-> 0]
    /\ order_by_col = ""
    /\ pages = <<>>

\* no INSERT is being followed
NoScript ==
    /\ script = <<>>
    /\ ran = 0
    /\ identity_insert = "off"

NoSide == NoMain /\ NoResolve /\ NoDDL /\ NoTuples /\ NoPaging /\ NoScript

\* no field is being serialized
NoValue ==
    /\ col = Column("", "", TRUE, None, None, None, FALSE, FALSE)
    /\ val = <<>>
    /\ literal = <<>>

Init ==
    /\ dialect \in Dialects
    /\ srcTable = TableIdentity
    /\ srcRows \in RowCounts
    /\ srcDropped \in 0..MaxDropped
    /\ tgtExists \in BOOLEAN
    /\ tgtStale \in (IF tgtExists THEN {0, StaleRows, srcRows} ELSE {0})
    /\ tgtNew = 0
    /\ tgtInitial = tgtStale
    /\ envFault = FALSE
    /\ NoPage
    /\ NoValue
    /\ NoSide
    /\ pc = "start"
    /\ jobState = "Pending"
    /\ result = [success |-> FALSE, rows |-> 0]
    /\ columns = <<>>
    /\ table_exists = FALSE
    /\ total_rows = 0
    /\ offset = 0
    /\ copied_count = 0
    /\ batch = 0
    /\ batch_start = 0
    /\ pageChunks = <<>>
    /\ fetched = <<>>
    /\ issued = NoStatements
    /\ insert_code = "none"
    /\ insert_result = <<>>

-----------------------------------------------------------------------------
(* copy_data_mssql_to_pg, copy_data_mssql_to_mssql: step 0 *)

\* "0. Hedef tabloyu temizle": DELETE, and TRUNCATE ... CASCADE when it fails
PgInitialDelete ==
    /\ pc = "start" /\ dialect = "pg"
    /\ \E delete_code \in ExecOutcomes(tgtExists), truncate_code \in ExecOutcomes(tgtExists) :
         /\ issued' = [issued EXCEPT !.delete = @ + 1,
                                     !.truncate = @ + (IF delete_code = "fail" THEN 1 ELSE 0)]
         /\ Answered(delete_code)
         /\ IF delete_code = "ok" \/ truncate_code = "ok"
               THEN tgtStale' = 0 /\ tgtNew' = 0
               ELSE UNCHANGED <<tgtStale, tgtNew>>
    /\ Goto("introspect")
    /\ UNCHANGED <<jobVars, tgtExists, columns, table_exists, total_rows, loopVars>>

\* "0. Hedef tabloyu temizle": DELETE, status not looked at
MssqlInitialDelete ==
    /\ pc = "start" /\ dialect = "mssql"
    /\ \E delete_code \in ExecOutcomes(tgtExists) :
         /\ Answered(delete_code)
         /\ IF delete_code = "ok"
               THEN tgtStale' = 0 /\ tgtNew' = 0
               ELSE UNCHANGED <<tgtStale, tgtNew>>
    /\ issued' = [issued EXCEPT !.delete = @ + 1]
    /\ Goto("introspect")
    /\ UNCHANGED <<jobVars, tgtExists, columns, table_exists, total_rows, loopVars>>

(* copy_data_mssql_to_mysql, copy_data_mssql_to_sqlite: step 0 *)

\* "0. Hedef tabloyu kontrol et": the catalog query; a failed query reads as absent
CheckTableExists ==
    /\ pc = "start" /\ dialect \in {"mysql", "sqlite"}
    /\ \E check_code \in {"ok", "fail"} :
         /\ Answered(check_code)
         /\ table_exists' = (check_code = "ok" /\ tgtExists)
    /\ Goto("introspect")
    /\ UNCHANGED <<jobVars, targetVars, columns, total_rows, loopVars, issued>>

-----------------------------------------------------------------------------
(* Step 1 of every transfer: get_table_definition_mssql and the `if not columns` *)

Introspect ==
    /\ pc = "introspect"
    /\ \E answer \in {"status_nonzero", "zero_columns", "columns"} :
         /\ Answered(IF answer = "status_nonzero" THEN "fail" ELSE "ok")
         /\ IF answer = "columns"
            THEN /\ columns' = srcTable
                 /\ Goto(IF dialect \in {"mysql", "sqlite"} /\ ~table_exists
                            THEN "create" ELSE "count_source")
            ELSE /\ columns' = <<>>
                 /\ Return("Failed", FALSE, 0)
    /\ UNCHANGED <<jobVars, targetVars, table_exists, total_rows, loopVars, issued>>

\* "1.5. Tablo yoksa olustur": create_table_mysql / create_table_sqlite send
\* DROP TABLE IF EXISTS (status not looked at) and then CREATE TABLE
CreateMissingTable ==
    /\ pc = "create"
    /\ \E drop_code \in {"ok", "fail"} :
         LET existsAfterDrop == tgtExists /\ drop_code = "fail" IN
         \E create_code \in (IF existsAfterDrop THEN {"fail"} ELSE {"ok", "fail"}) :
             /\ envFault' = (envFault \/ drop_code = "fail" \/ create_code = "fail")
             /\ tgtExists' = (existsAfterDrop \/ create_code = "ok")
             /\ IF existsAfterDrop
                   THEN UNCHANGED <<tgtStale, tgtNew>>
                   ELSE tgtStale' = 0 /\ tgtNew' = 0
             /\ IF create_code = "ok"
                   THEN table_exists' = TRUE /\ Goto("count_source")
                   ELSE UNCHANGED table_exists /\ Return("Failed", FALSE, 0)
    /\ issued' = [issued EXCEPT !.ddl = @ + 2]
    /\ UNCHANGED <<jobVars, columns, total_rows, loopVars>>

\* "2. Satir sayisini al": SELECT COUNT(*) on the source; an empty source is skipped
CountSource ==
    /\ pc = "count_source"
    /\ \E count_code \in {"ok", "fail"} :
         /\ Answered(count_code)
         /\ IF count_code = "fail"
            THEN UNCHANGED total_rows /\ Return("Failed", FALSE, 0)
            ELSE /\ total_rows' = srcRows
                 /\ IF srcRows = 0
                       THEN Return("Skipped", TRUE, 0)
                       ELSE Goto("count_target")
    /\ UNCHANGED <<jobVars, targetVars, columns, table_exists, loopVars, issued>>

\* "2.5": SELECT COUNT(*) on the target; a failed query reads as 0 rows
CountTarget ==
    /\ pc = "count_target"
    /\ \E check_code \in ExecOutcomes(tgtExists) :
         LET target_count == IF check_code = "ok" THEN TargetCount ELSE 0 IN
         /\ Answered(check_code)
         /\ IF target_count > 0 /\ target_count = total_rows
            THEN Return("Skipped", TRUE, target_count)
            ELSE Goto(CASE dialect = "pg" -> "batch_delete"
                        [] dialect = "mssql" -> "direct_insert"
                        [] OTHER -> "clear")
    /\ UNCHANGED <<jobVars, targetVars, columns, table_exists, total_rows, loopVars, issued>>

-----------------------------------------------------------------------------
(* Clearing the target before the copy *)

\* copy_data_mssql_to_mysql "2.6. Hedef tabloyu temizle (tablo varsa)":
\* DELETE, and TRUNCATE when it fails; the TRUNCATE status is not looked at
MysqlClearTarget ==
    /\ pc = "clear" /\ dialect = "mysql"
    /\ IF table_exists
          THEN \E delete_code \in ExecOutcomes(tgtExists), truncate_code \in ExecOutcomes(tgtExists) :
                 /\ issued' = [issued EXCEPT !.delete = @ + 1,
                                             !.truncate = @ + (IF delete_code = "fail" THEN 1 ELSE 0)]
                 /\ Answered(delete_code)
                 /\ IF delete_code = "ok" \/ truncate_code = "ok"
                       THEN tgtStale' = 0 /\ tgtNew' = 0
                       ELSE UNCHANGED <<tgtStale, tgtNew>>
          ELSE UNCHANGED <<tgtStale, tgtNew, issued, envFault>>
    /\ Goto("batch_delete")
    /\ UNCHANGED <<jobVars, tgtExists, columns, table_exists, total_rows, loopVars>>

\* copy_data_mssql_to_sqlite "2.6": one DELETE, status not looked at; the batch
\* function that follows sends no further DELETE
SqliteClearTarget ==
    /\ pc = "clear" /\ dialect = "sqlite"
    /\ IF table_exists
          THEN \E delete_code \in ExecOutcomes(tgtExists) :
                 /\ issued' = [issued EXCEPT !.delete = @ + 1]
                 /\ Answered(delete_code)
                 /\ IF delete_code = "ok"
                       THEN tgtStale' = 0 /\ tgtNew' = 0
                       ELSE UNCHANGED <<tgtStale, tgtNew>>
          ELSE UNCHANGED <<tgtStale, tgtNew, issued, envFault>>
    /\ pc' = "loop"
    /\ jobState' = "Copying"
    /\ UNCHANGED <<jobVars, tgtExists, result, columns, table_exists, total_rows, loopVars>>

\* copy_data_mssql_to_pg_alternative / copy_data_mssql_to_mysql_batch
\* "Hedef tabloyu temizle": DELETE at the head of the batch function, status not
\* looked at; copied_count = 0, offset = 0
BatchDelete ==
    /\ pc = "batch_delete"
    /\ \E delete_code \in ExecOutcomes(tgtExists) :
         /\ Answered(delete_code)
         /\ IF delete_code = "ok"
               THEN tgtStale' = 0 /\ tgtNew' = 0
               ELSE UNCHANGED <<tgtStale, tgtNew>>
    /\ issued' = [issued EXCEPT !.delete = @ + 1]
    /\ pc' = "loop"
    /\ jobState' = "Copying"
    /\ UNCHANGED <<jobVars, tgtExists, result, columns, table_exists, total_rows, loopVars>>

-----------------------------------------------------------------------------
(* The page loop: while offset < total_rows *)

\* rows the source returns for OFFSET off ROWS FETCH NEXT batch_size ROWS ONLY
SourcePage(off) == Max(0, Min(batch_size, srcRows - off))

\* (mutant) an extraction failure that reports no rows
ExtractionFailureReportsZero == Return("Failed", FALSE, 0)

\* `if data_code != 0: ... return False, copied_count`
ExtractionFailure == Return("Failed", FALSE, copied_count)

\* One page: the SELECT, the `data_code != 0` return, the parse into rows and the
\* `if not rows: break`.  The parser keeps all data rows of the page but those its
\* line filter drops.
FetchPage ==
    /\ pc = "loop" /\ offset < total_rows
    /\ issued' = [issued EXCEPT !.fetch = @ + 1]
    /\ fetched' = Append(fetched, offset)
    /\ \E data_code \in {"ok", "fail"} :
         LET dropped == IF offset = 0 THEN Min(srcDropped, SourcePage(offset)) ELSE 0
             parsed  == SourcePage(offset) - dropped
         IN
         /\ Answered(data_code)
         /\ IF data_code = "fail"
            THEN /\ ExtractionFailure
                 /\ UNCHANGED <<batch, batch_start, pageChunks>>
            ELSE IF parsed = 0
                    THEN /\ Return("Completed", TRUE, copied_count)
                         /\ UNCHANGED <<batch, batch_start, pageChunks>>
                    ELSE /\ batch' = parsed
                         /\ batch_start' = 0
                         /\ pageChunks' = <<>>
                         /\ Goto("insert")
    /\ UNCHANGED <<jobVars, targetVars, columns, table_exists, total_rows, offset, copied_count,
                   chunkVars>>

\* (mutant) a slice end that is not cut at the end of the page
BatchEndUncut(start, len) == start + insert_batch_size

\* batch_end = min(batch_start + insert_batch_size, len(batch_values))
BatchEnd(start, len) == Min(start + insert_batch_size, len)

\* (mutant) a while loop that forgets its own `offset += batch_size`
NextOffsetStuck(off, error, last) == off + (IF error THEN batch_size ELSE 0)

\* offset after one turn of the chunk loop: `offset += batch_size` of the error
\* branch, and `offset += batch_size` of the while loop once the for loop is over
NextOffset(off, error, last) ==
    off + (IF error THEN batch_size ELSE 0) + (IF last THEN batch_size ELSE 0)

\* One turn of `for batch_start in range(0, len(batch_values), insert_batch_size)`:
\* the INSERT of batch_values[batch_start:batch_end] and the test of its status.
\* In the error branch `offset += batch_size; continue` goes on with the next turn
\* of this for loop.  After the last turn the while loop adds batch_size to offset.
InsertChunk ==
    /\ pc = "insert"
    /\ LET batch_end == BatchEnd(batch_start, batch)
           batch_insert_values == batch_end - batch_start
           last == batch_start + insert_batch_size >= batch
       IN /\ pageChunks' = Append(pageChunks, <<batch_start, batch_end>>)
          /\ issued' = [issued EXCEPT !.insert = @ + 1]
          /\ \E code \in ExecOutcomes(tgtExists), text \in Diagnostics(dialect) :
               LET error == code = "fail" /\ Unrecognized(dialect, text) IN
               /\ Answered(code)
               /\ insert_code' = code
               /\ insert_result' = IF code = "fail" THEN text ELSE <<>>
               /\ tgtNew' = IF code = "ok" THEN tgtNew + batch_insert_values ELSE tgtNew
               /\ copied_count' = IF error THEN copied_count
                                           ELSE copied_count + batch_insert_values
               /\ offset' = NextOffset(offset, error, last)
          /\ batch_start' = batch_start + insert_batch_size
          /\ Goto(IF last THEN "loop" ELSE "insert")
    /\ UNCHANGED <<jobVars, tgtExists, tgtStale, columns, table_exists, total_rows, batch, fetched>>

\* the while condition fails: the summary line and `return True, copied_count`
LoopExit ==
    /\ pc = "loop" /\ ~(offset < total_rows)
    /\ Return("Completed", TRUE, copied_count)
    /\ UNCHANGED <<jobVars, targetVars, columns, table_exists, total_rows, loopVars, issued, envFault>>

-----------------------------------------------------------------------------
(* copy_data_mssql_to_mssql: INSERT INTO ... SELECT FROM and the final count *)

\* the single INSERT ... SELECT; "rows affected" may or may not be in its output
DirectInsert ==
    /\ pc = "direct_insert"
    /\ issued' = [issued EXCEPT !.insert = @ + 1]
    /\ \E code \in ExecOutcomes(tgtExists) :
         /\ Answered(code)
         /\ IF code = "fail"
            THEN /\ Return("Failed", FALSE, 0)
                 /\ UNCHANGED <<tgtNew, copied_count>>
            ELSE /\ tgtNew' = tgtNew + srcRows
                 /\ \E rows_affected \in {0, srcRows} : copied_count' = rows_affected
                 /\ pc' = "final_count"
                 /\ jobState' = "Copying"
                 /\ UNCHANGED result
    /\ UNCHANGED <<jobVars, tgtExists, tgtStale, columns, table_exists, total_rows,
                   offset, batch, batch_start, pageChunks, fetched, chunkVars>>

\* "4. Kopyalanan satir sayisini kontrol et"; copied_count holds rows_affected
FinalCount ==
    /\ pc = "final_count"
    /\ \E final_code \in ExecOutcomes(tgtExists) :
         LET counted == IF final_code = "ok" THEN TargetCount ELSE 0
             final_count == IF counted = 0 /\ copied_count > 0 THEN copied_count ELSE counted
         IN /\ Answered(final_code)
            /\ Return("Completed", TRUE, final_count)
    /\ UNCHANGED <<jobVars, targetVars, columns, table_exists, total_rows, loopVars, issued>>

-----------------------------------------------------------------------------

Next ==
    \/ PgInitialDelete
    \/ MssqlInitialDelete
    \/ CheckTableExists
    \/ Introspect
    \/ CreateMissingTable
    \/ CountSource
    \/ CountTarget
    \/ MysqlClearTarget
    \/ SqliteClearTarget
    \/ BatchDelete
    \/ FetchPage
    \/ InsertChunk
    \/ LoopExit
    \/ DirectInsert
    \/ FinalCount

Spec == Init /\ [][Next]_vars

\* the transfer function runs to its return statement
FairSpec == Spec /\ WF_vars(Next)

-----------------------------------------------------------------------------
(* Parsing of one page: from the text returned by the source to rows *)

\* every variable of the transfer but dialect, columns and pc
transferCore == <<srcTable, srcRows, srcDropped, tgtExists, tgtStale, tgtNew, tgtInitial, envFault, jobState,
                  result, table_exists, total_rows, offset, copied_count, batch, batch_start,
                  pageChunks, fetched, issued, insert_code, insert_result>>

\* with what surrounds the call
transferVars == <<transferCore, sideVars>>

\* everything a transfer function works on
calleeVars == <<dialect, columns, pc, srcTable, srcRows, srcDropped, targetVars, tgtInitial, envFault,
                jobState, result, table_exists, total_rows, loopVars, issued, pageVars, renderVars>>

\* no transfer function is being followed
NoTransfer ==
    /\ srcTable = <<>>
    /\ srcRows = 0
    /\ srcDropped = 0
    /\ tgtExists = FALSE
    /\ tgtStale = 0
    /\ tgtNew = 0
    /\ tgtInitial = 0
    /\ envFault = FALSE
    /\ jobState = "Pending"
    /\ result = [success |-> FALSE, rows |-> 0]
    /\ table_exists = FALSE
    /\ total_rows = 0
    /\ offset = 0
    /\ copied_count = 0
    /\ batch = 0
    /\ batch_start = 0
    /\ pageChunks = <<>>
    /\ fetched = <<>>
    /\ issued = NoStatements
    /\ insert_code = "none"
    /\ insert_result = <<>>
    /\ NoPage
    /\ NoValue

\* the transfer is inside its page loop, on the first page of a table
InLoop(table) ==
    /\ srcTable = table
    /\ columns = table
    /\ srcRows = 3
    /\ srcDropped = 0
    /\ tgtExists = TRUE
    /\ tgtStale = 0
    /\ tgtNew = 0
    /\ tgtInitial = 0
    /\ envFault = FALSE
    /\ NoSide
    /\ jobState = "Copying"
    /\ result = [success |-> FALSE, rows |-> 0]
    /\ table_exists = TRUE
    /\ total_rows = 3
    /\ offset = 0
    /\ copied_count = 0
    /\ batch = 0
    /\ batch_start = 0
    /\ pageChunks = <<>>
    /\ fetched = <<0>>
    /\ issued = [NoStatements EXCEPT !.fetch = 1]
    /\ insert_code = "none"
    /\ insert_result = <<>>

W_rows_affected == <<"r", "o", "w", "s", " ", "a", "f", "f", "e", "c", "t", "e", "d">>

W_column == <<"c", "o", "l", "u", "m", "n">>

W_EMPTY == <<"[", "E", "M", "P", "T", "Y", "]">>

\* the rows of the page, field by field
PageRows ==
    << << <<"1", "1">>, <<"a", "b">>, <<"c", "d">> >>,
       << <<"2", "2">>, <<"e", "f">>, <<"g", "h">> >>,
       << <<"3", "3">>, <<"i", "j">>, <<"k", "l">> >> >>

\* the line sqlcmd prints after the rows
Footer == <<"(", "3", " ">> \o W_rows_affected \o <<")">>

RECURSIVE Concat(_)
Concat(parts) == IF parts = <<>> THEN <<>> ELSE Head(parts) \o Concat(Tail(parts))

\* a line with a line break after each of the positions in cuts
WrapLine(line, cuts) ==
    Concat([i \in 1..Len(line) |-> IF i \in cuts THEN <<line[i], "\n">> ELSE <<line[i]>>])

\* sqlcmd -s "\t" -W: one line per row, fields separated by the delimiter
PageText(table, w) ==
    Join([r \in 1..Len(table) |->
              IF r = w.row THEN WrapLine(Join(table[r], TAB), w.cuts) ELSE Join(table[r], TAB)]
           \o << <<>>, Footer, <<>> >>, "\n")

\* the positions after which a line of the page can be broken
CutChoices == {c \in SUBSET (1..(Len(Join(PageRows[1], TAB)) - 1)) :
                  Cardinality(c) \in 1..MaxBreaks}

\* a table of three text columns, the first and the last nullable
TableTexts ==
    << Column("Code", "nvarchar", TRUE, <<"5", "0">>, None, None, FALSE, FALSE),
       Column("Name", "nvarchar", FALSE, <<"5", "0">>, None, None, FALSE, FALSE),
       Column("Note", "nvarchar", TRUE, <<"5", "0">>, None, None, FALSE, FALSE) >>

\* rows of TableTexts whose text looks like a line the parser takes for noise,
\* and rows whose first or last field is the empty text
SpecialRows ==
    { << <<"-", "5">>, <<"e", "f">>, <<"g", "h">> >>,
      << <<"(", "e", ")">>, <<"e", "f">>, <<"g", "h">> >>,
      << <<"2", "2">>, W_column, <<"g", "h">> >>,
      << <<"2", "2">>, W_rows_affected, <<"g", "h">> >>,
      << <<>>, <<"e", "f">>, <<"g", "h">> >>,
      << <<"2", "2">>, <<"e", "f">>, <<>> >> }

\* PageRows with one of its rows replaced by a special row
TextPages ==
    {[PageRows EXCEPT ![r] = row] : r \in 1..Len(PageRows), row \in SpecialRows}

InitParse ==
    /\ dialect \in BatchDialects
    /\ NoValue
    /\ \/ /\ InLoop(TableIdentity)
          /\ logicalRows = PageRows
          /\ wrapped \in {[row |-> 0, cuts |-> {}]}
                           \cup [row : 1..Len(PageRows), cuts : CutChoices]
       \/ /\ InLoop(TableTexts)
          /\ logicalRows \in TextPages
          /\ wrapped = [row |-> 0, cuts |-> {}]
    /\ data_result = PageText(logicalRows, wrapped)
    /\ unread = <<>>
    /\ current_line = <<>>
    /\ lines = <<>>
    /\ rows = <<>>
    /\ pc = "split_lines"

\* the filter on a stripped physical line
IsDataLine(line_stripped) ==
    /\ line_stripped # <<>>
    /\ ~StartsWith(line_stripped, <<"(">>)
    /\ ~StartsWith(line_stripped, <<"-">>)
    /\ ~ContainsSub(Lower(line_stripped), W_rows_affected)
    /\ ~ContainsSub(Lower(line_stripped), W_column)

\* `for line in data_result_decoded.split('\n')`
SplitLines ==
    /\ pc = "split_lines" /\ dialect \in {"mysql", "sqlite"}
    /\ unread' = Split(data_result, "\n")
    /\ pc' = "reassemble"
    /\ UNCHANGED <<dialect, columns, transferVars, renderVars, data_result, current_line, lines, rows,
                   logicalRows, wrapped>>

\* one turn of the loop over the physical lines
ReassembleLine ==
    /\ pc = "reassemble" /\ unread # <<>>
    /\ LET line_stripped == Strip(Head(unread))
           expected_tabs == Len(columns) - 1
           actual_tabs   == CountChar(line_stripped, TAB)
       IN  IF IsDataLine(line_stripped)
              THEN IF actual_tabs < expected_tabs
                      THEN /\ current_line' = current_line \o line_stripped \o <<" ">>
                           /\ UNCHANGED lines
                      ELSE IF current_line # <<>>
                              THEN /\ lines' = Append(lines, current_line \o line_stripped)
                                   /\ current_line' = <<>>
                              ELSE /\ lines' = Append(lines, line_stripped)
                                   /\ UNCHANGED current_line
              ELSE UNCHANGED <<current_line, lines>>
    /\ unread' = Tail(unread)
    /\ UNCHANGED <<dialect, columns, pc, transferVars, renderVars, data_result, rows, logicalRows, wrapped>>

\* "Son satir current_line'da kaldiysa ekle"
FlushCurrentLine ==
    /\ pc = "reassemble" /\ unread = <<>>
    /\ lines' = IF current_line # <<>> THEN Append(lines, Strip(current_line)) ELSE lines
    /\ pc' = "split_rows"
    /\ UNCHANGED <<dialect, columns, transferVars, renderVars, data_result, unread, current_line, rows,
                   logicalRows, wrapped>>

\* parts padded with '' or cut to n fields
PadParts(parts, n) ==
    IF Len(parts) < n THEN parts \o [i \in 1..(n - Len(parts)) |-> <<>>]
    ELSE IF Len(parts) > n THEN SubSeq(parts, 1, n)
    ELSE parts

\* one field, stripped, the placeholder of an empty CHAR value turned into ''
CleanPart(p) ==
    LET part_stripped == IF p # <<>> THEN Strip(p) ELSE <<>> IN
    IF part_stripped = W_EMPTY THEN <<>> ELSE part_stripped

\* the fields of one complete line
CleanedParts(line, n) ==
    LET parts == PadParts(Split(line, TAB), n) IN
    [i \in 1..Len(parts) |-> CleanPart(parts[i])]

\* `for line in lines`: the rows of the page
SplitRows ==
    /\ pc = "split_rows"
    /\ LET n    == Len(columns)
           kept == SelectSeq(lines, LAMBDA line : line # <<>>)
           all  == [i \in 1..Len(kept) |-> CleanedParts(kept[i], n)]
       IN  rows' = SelectSeq(all, LAMBDA cleaned_parts : Len(cleaned_parts) = n)
    /\ pc' = "parsed"
    /\ UNCHANGED <<dialect, columns, transferVars, renderVars, data_result, unread, current_line, lines,
                   logicalRows, wrapped>>

\* the physical lines kept by copy_data_mssql_to_pg_alternative
PgLines(text) ==
    LET physical == Split(text, "\n")
        kept == SelectSeq(physical, LAMBDA l : /\ Strip(l) # <<>>
                                                /\ ~StartsWith(l, <<"(">>)
                                                /\ ~StartsWith(l, <<"-">>))
    IN  [i \in 1..Len(kept) |-> Strip(kept[i])]

\* copy_data_mssql_to_pg_alternative: no line is joined to another
PgParsePage ==
    /\ pc = "split_lines" /\ dialect = "pg"
    /\ lines' = PgLines(data_result)
    /\ LET n    == Len(columns)
           kept == SelectSeq(lines', LAMBDA line : /\ line # <<>>
                                                    /\ ~ContainsSub(Lower(line), W_rows_affected)
                                                    /\ ~ContainsSub(Lower(line), W_column)
                                                    /\ Len(Split(line, TAB)) >= n)
       IN  rows' = [i \in 1..Len(kept) |->
                       LET parts == SubSeq(Split(kept[i], TAB), 1, n) IN
                       [j \in 1..n |-> Strip(parts[j])]]
    /\ pc' = "parsed"
    /\ UNCHANGED <<dialect, columns, transferVars, renderVars, data_result, unread, current_line,
                   logicalRows, wrapped>>

NextParse ==
    \/ SplitLines
    \/ ReassembleLine
    \/ FlushCurrentLine
    \/ SplitRows
    \/ PgParsePage

SpecParse == InitParse /\ [][NextParse]_vars

Capitals == {"A", "B", "C", "D", "E", "F", "G", "H", "I", "J", "K", "L", "M",
             "N", "O", "P", "Q", "R", "S", "T", "U", "V", "W", "X", "Y", "Z"}

UpperChar(c) ==
    IF \E u \in Capitals : LowerChar(u) = c
    THEN CHOOSE u \in Capitals : LowerChar(u) = c
    ELSE c

\* a type name as the catalog of the source may spell it
Upper(text) == [i \in 1..Len(text) |-> UpperChar(text[i])]

Capitalized(text) == [i \in 1..Len(text) |-> IF i = 1 THEN UpperChar(text[i]) ELSE text[i]]

DigitChars == <<"0", "1", "2", "3", "4", "5", "6", "7", "8", "9">>

IsDigit(c) == \E d \in 1..10 : DigitChars[d] = c

DigitValue(c) == (CHOOSE d \in 1..10 : DigitChars[d] = c) - 1

\* the text after the sign that int() accepts
Unsigned(text) ==
    IF text # <<>> /\ text[1] \in {"+", "-"} THEN Tail(text) ELSE text

\* int(text) does not raise ValueError: blanks around, a sign, decimal digits
IsInt(text) ==
    LET body == Unsigned(Strip(text)) IN
    body # <<>> /\ \A i \in 1..Len(body) : IsDigit(body[i])

-----------------------------------------------------------------------------
(* Serialization of one field into the VALUES list of an INSERT *)

W_NULL == <<"N", "U", "L", "L">>

W_true == <<"t", "r", "u", "e">>

W_TRUE == <<"T", "R", "U", "E">>

W_FALSE == <<"F", "A", "L", "S", "E">>

\* str.replace(c, word)
Replace(text, c, word) ==
    Concat([i \in 1..Len(text) |-> IF text[i] = c THEN word ELSE <<text[i]>>])

\* f"'{val_escaped}'"
Quoted(val_escaped) == <<"'">> \o val_escaped \o <<"'">>

\* val.replace("'", "''").replace('\\', '\\\\')
PgEscape(text) == Replace(Replace(text, "'", <<"'", "'">>), "\\", <<"\\", "\\">>)

\* val.replace("\\", "\\\\").replace("'", "''")
MysqlEscape(text) == Replace(Replace(text, "\\", <<"\\", "\\">>), "'", <<"'", "'">>)

\* float(text) does not raise ValueError: blanks around, a sign, then inf, infinity,
\* nan, or decimal digits with at most one point and an optional exponent
IsDigits(text) == text # <<>> /\ \A i \in 1..Len(text) : IsDigit(text[i])

IsMantissa(text) ==
    /\ \A i \in 1..Len(text) : IsDigit(text[i]) \/ text[i] = "."
    /\ \E i \in 1..Len(text) : IsDigit(text[i])
    /\ Cardinality({i \in 1..Len(text) : text[i] = "."}) <= 1

IsFloat(text) ==
    LET body == Lower(Unsigned(Strip(text)))
        es   == {i \in 1..Len(body) : body[i] = "e"}
    IN  \/ body \in {<<"i", "n", "f">>, <<"n", "a", "n">>,
                     <<"i", "n", "f", "i", "n", "i", "t", "y">>}
        \/ es = {} /\ IsMantissa(body)
        \/ \E k \in es : /\ IsMantissa(SubSeq(body, 1, k - 1))
                         /\ IsDigits(Unsigned(SubSeq(body, k + 1, Len(body))))

HexChars == {"0", "1", "2", "3", "4", "5", "6", "7", "8", "9", "A", "B", "C", "D", "E", "F"}

\* ''.join(c for c in hex_val.upper().strip() if c in '0123456789ABCDEF'), after the 0x
HexClean(v) ==
    LET hex_val == IF StartsWith(v, <<"0", "x">>) THEN SubSeq(v, 3, Len(v)) ELSE v
    IN  SelectSeq(Strip(Upper(hex_val)), LAMBDA c : c \in HexChars)

UNHEX(hex) == <<"U", "N", "H", "E", "X", "(", "'">> \o hex \o <<"'", ")">>

XLiteral(hex) == <<"X", "'">> \o hex \o <<"'">>

W_BYTEA_CAST == <<":", ":", "B", "Y", "T", "E", "A">>

IntegerTypes == {"int", "bigint", "smallint", "tinyint"}

NumericTypes == {"decimal", "numeric", "money", "smallmoney", "float", "real"}

BinaryTypes == {"varbinary", "image", "timestamp"}

\* the branches of copy_data_mssql_to_pg_alternative for the column types below
PgRender(c, v) ==
    IF v = W_NULL \/ v = <<>> THEN W_NULL
    ELSE IF c.data_type = "xml" THEN Quoted(PgEscape(v))
    ELSE IF c.data_type \in {"varchar", "nvarchar", "char", "nchar", "text", "ntext", "datetime",
                             "datetime2", "date", "time", "uniqueidentifier"}
            THEN Quoted(PgEscape(v))
    ELSE IF c.data_type = "bit"
            THEN (IF v = <<"1">> \/ Lower(v) = W_true THEN W_TRUE ELSE W_FALSE)
    ELSE IF c.data_type \in IntegerTypes THEN (IF IsInt(v) THEN v ELSE W_NULL)
    ELSE IF c.data_type \in NumericTypes THEN (IF IsFloat(v) THEN v ELSE W_NULL)
    ELSE IF c.data_type \in BinaryTypes THEN Quoted(PgEscape(v)) \o W_BYTEA_CAST
    ELSE Quoted(PgEscape(v))

\* the branches of copy_data_mssql_to_mysql_batch for the column types below
MysqlRender(c, v) ==
    IF v = W_NULL \/ v = <<>>
       THEN IF ~c.is_nullable
               THEN IF c.data_type \in {"varchar", "nvarchar", "char", "nchar", "text", "ntext",
                                        "uniqueidentifier", "hierarchyid"}
                       THEN <<"'", "'">>
                       ELSE W_NULL
               ELSE W_NULL
    ELSE IF c.data_type = "xml" THEN Quoted(MysqlEscape(v))
    ELSE IF c.data_type = "hierarchyid" THEN Quoted(MysqlEscape(Strip(v)))
    ELSE IF c.data_type \in {"datetime", "datetime2", "date", "time"}
            THEN (IF v # <<>> /\ v # W_NULL /\ Strip(v) # <<>> THEN Quoted(MysqlEscape(v))
                  ELSE W_NULL)
    ELSE IF c.data_type \in {"varchar", "nvarchar", "char", "nchar", "text", "ntext",
                             "uniqueidentifier"}
            THEN Quoted(MysqlEscape(v))
    ELSE IF c.data_type = "bit"
            THEN (IF v = <<"1">> \/ Lower(v) = W_true THEN <<"1">> ELSE <<"0">>)
    ELSE IF c.data_type \in IntegerTypes THEN (IF IsInt(v) THEN v ELSE W_NULL)
    ELSE IF c.data_type \in NumericTypes THEN (IF IsFloat(v) THEN v ELSE W_NULL)
    ELSE IF c.data_type \in BinaryTypes
            THEN (IF HexClean(v) # <<>> THEN UNHEX(HexClean(v)) ELSE W_NULL)
    ELSE Quoted(MysqlEscape(v))

\* copy_data_mssql_to_sqlite_batch: the same branches, but a binary value is X'...'
SqliteRender(c, v) ==
    IF v # W_NULL /\ v # <<>> /\ c.data_type \in BinaryTypes
       THEN (IF HexClean(v) # <<>> THEN XLiteral(HexClean(v)) ELSE W_NULL)
       ELSE MysqlRender(c, v)

\* column types whose branch of the serialization is modelled above
RenderTypes == {"varchar", "nvarchar", "char", "nchar", "text", "ntext", "uniqueidentifier",
                "hierarchyid", "xml", "datetime", "bit", "geography", "int", "decimal",
                "varbinary", "image", "timestamp"}

\* field values: the literal text NULL, a hexadecimal text as sys.fn_varbintohexstr prints
\* it, and the texts over a quote, a backslash, a letter and a digit
RECURSIVE Texts(_)
Texts(n) ==
    IF n = 0 THEN {<<>>}
    ELSE Texts(n - 1) \cup {Append(t, c) : t \in Texts(n - 1), c \in {"a", "'", "\\", "1"}}

FieldValues == Texts(MaxValueLen) \cup {W_NULL, <<"0", "x", "0", "a">>}

InitRender ==
    /\ dialect \in BatchDialects
    /\ col \in {Column("Value", t, n, None, None, None, FALSE, FALSE) :
                   t \in RenderTypes, n \in BOOLEAN}
    /\ InLoop(<<col>>)
    /\ NoPage
    /\ val \in FieldValues
    /\ literal = <<>>
    /\ pc = "render"

\* `val = val.strip() if val else ''` and the branch of the column's type
PgRenderValue ==
    /\ pc = "render" /\ dialect = "pg"
    /\ literal' = PgRender(col, IF val # <<>> THEN Strip(val) ELSE <<>>)
    /\ pc' = "rendered"
    /\ UNCHANGED <<dialect, columns, transferVars, pageVars, col, val>>

MysqlRenderValue ==
    /\ pc = "render" /\ dialect = "mysql"
    /\ literal' = MysqlRender(col, IF val # <<>> THEN Strip(val) ELSE <<>>)
    /\ pc' = "rendered"
    /\ UNCHANGED <<dialect, columns, transferVars, pageVars, col, val>>

SqliteRenderValue ==
    /\ pc = "render" /\ dialect = "sqlite"
    /\ literal' = SqliteRender(col, IF val # <<>> THEN Strip(val) ELSE <<>>)
    /\ pc' = "rendered"
    /\ UNCHANGED <<dialect, columns, transferVars, pageVars, col, val>>

NextRender ==
    \/ PgRenderValue
    \/ MysqlRenderValue
    \/ SqliteRenderValue

SpecRender == InitRender /\ [][NextRender]_vars

\* The targets' grammars of string literals (not code of the repository).
\* SQL standard, SQLite, PostgreSQL with standard_conforming_strings on: inside
\* the quotes '' stands for a quote and a backslash stands for itself.
RECURSIVE StandardBody(_)
StandardBody(body) ==
    IF body = <<>> THEN <<>>
    ELSE IF Len(body) >= 2 /\ body[1] = "'" /\ body[2] = "'"
            THEN <<"'">> \o StandardBody(SubSeq(body, 3, Len(body)))
    ELSE <<body[1]>> \o StandardBody(Tail(body))

\* MySQL without NO_BACKSLASH_ESCAPES, PostgreSQL with standard_conforming_strings
\* off: a backslash escapes the character after it, '' stands for a quote.
RECURSIVE BackslashBody(_)
BackslashBody(body) ==
    IF body = <<>> THEN <<>>
    ELSE IF Len(body) >= 2 /\ body[1] = "\\"
            THEN <<body[2]>> \o BackslashBody(SubSeq(body, 3, Len(body)))
    ELSE IF Len(body) >= 2 /\ body[1] = "'" /\ body[2] = "'"
            THEN <<"'">> \o BackslashBody(SubSeq(body, 3, Len(body)))
    ELSE <<body[1]>> \o BackslashBody(Tail(body))

\* the values the target can read from a quoted literal
ParsedBack(d, text) ==
    LET body == SubSeq(text, 2, Len(text) - 1) IN
    IF d = "mysql" THEN {BackslashBody(body)}
    ELSE IF d = "sqlite" THEN {StandardBody(body)}
    ELSE {StandardBody(body), BackslashBody(body)}

-----------------------------------------------------------------------------
(* Type resolvers: convert_type_mssql_to_pg / _mysql / _sqlite *)

\* the characters of the type names
TypeText ==
       ("int" :> <<"i", "n", "t">>)
    @@ ("bigint" :> <<"b", "i", "g", "i", "n", "t">>)
    @@ ("smallint" :> <<"s", "m", "a", "l", "l", "i", "n", "t">>)
    @@ ("tinyint" :> <<"t", "i", "n", "y", "i", "n", "t">>)
    @@ ("bit" :> <<"b", "i", "t">>)
    @@ ("decimal" :> <<"d", "e", "c", "i", "m", "a", "l">>)
    @@ ("numeric" :> <<"n", "u", "m", "e", "r", "i", "c">>)
    @@ ("money" :> <<"m", "o", "n", "e", "y">>)
    @@ ("smallmoney" :> <<"s", "m", "a", "l", "l", "m", "o", "n", "e", "y">>)
    @@ ("float" :> <<"f", "l", "o", "a", "t">>)
    @@ ("real" :> <<"r", "e", "a", "l">>)
    @@ ("datetime" :> <<"d", "a", "t", "e", "t", "i", "m", "e">>)
    @@ ("datetime2" :> <<"d", "a", "t", "e", "t", "i", "m", "e", "2">>)
    @@ ("date" :> <<"d", "a", "t", "e">>)
    @@ ("time" :> <<"t", "i", "m", "e">>)
    @@ ("char" :> <<"c", "h", "a", "r">>)
    @@ ("varchar" :> <<"v", "a", "r", "c", "h", "a", "r">>)
    @@ ("nvarchar" :> <<"n", "v", "a", "r", "c", "h", "a", "r">>)
    @@ ("nchar" :> <<"n", "c", "h", "a", "r">>)
    @@ ("text" :> <<"t", "e", "x", "t">>)
    @@ ("ntext" :> <<"n", "t", "e", "x", "t">>)
    @@ ("xml" :> <<"x", "m", "l">>)
    @@ ("uniqueidentifier" :> <<"u", "n", "i", "q", "u", "e", "i", "d", "e", "n", "t", "i", "f", "i", "e", "r">>)
    @@ ("varbinary" :> <<"v", "a", "r", "b", "i", "n", "a", "r", "y">>)
    @@ ("image" :> <<"i", "m", "a", "g", "e">>)
    @@ ("timestamp" :> <<"t", "i", "m", "e", "s", "t", "a", "m", "p">>)
    @@ ("hierarchyid" :> <<"h", "i", "e", "r", "a", "r", "c", "h", "y", "i", "d">>)
    @@ ("geography" :> <<"g", "e", "o", "g", "r", "a", "p", "h", "y">>)

TYPE_MAPPING ==
       ("int" :> [pg |-> <<"I", "N", "T", "E", "G", "E", "R">>,
                   mysql |-> <<"I", "N", "T">>,
                   sqlite |-> <<"I", "N", "T", "E", "G", "E", "R">>])
    @@ ("bigint" :> [pg |-> <<"B", "I", "G", "I", "N", "T">>,
                      mysql |-> <<"B", "I", "G", "I", "N", "T">>,
                      sqlite |-> <<"I", "N", "T", "E", "G", "E", "R">>])
    @@ ("smallint" :> [pg |-> <<"S", "M", "A", "L", "L", "I", "N", "T">>,
                        mysql |-> <<"S", "M", "A", "L", "L", "I", "N", "T">>,
                        sqlite |-> <<"I", "N", "T", "E", "G", "E", "R">>])
    @@ ("tinyint" :> [pg |-> <<"S", "M", "A", "L", "L", "I", "N", "T">>,
                       mysql |-> <<"T", "I", "N", "Y", "I", "N", "T">>,
                       sqlite |-> <<"I", "N", "T", "E", "G", "E", "R">>])
    @@ ("bit" :> [pg |-> <<"B", "O", "O", "L", "E", "A", "N">>,
                   mysql |-> <<"B", "I", "T">>,
                   sqlite |-> <<"I", "N", "T", "E", "G", "E", "R">>])
    @@ ("decimal" :> [pg |-> <<"D", "E", "C", "I", "M", "A", "L">>,
                       mysql |-> <<"D", "E", "C", "I", "M", "A", "L">>,
                       sqlite |-> <<"R", "E", "A", "L">>])
    @@ ("numeric" :> [pg |-> <<"N", "U", "M", "E", "R", "I", "C">>,
                       mysql |-> <<"D", "E", "C", "I", "M", "A", "L">>,
                       sqlite |-> <<"R", "E", "A", "L">>])
    @@ ("money" :> [pg |-> <<"M", "O", "N", "E", "Y">>,
                     mysql |-> <<"D", "E", "C", "I", "M", "A", "L", "(", "1", "9", ",", "4", ")">>,
                     sqlite |-> <<"R", "E", "A", "L">>])
    @@ ("smallmoney" :> [pg |-> <<"M", "O", "N", "E", "Y">>,
                          mysql |-> <<"D", "E", "C", "I", "M", "A", "L", "(", "1", "0", ",", "4", ")">>,
                          sqlite |-> <<"R", "E", "A", "L">>])
    @@ ("float" :> [pg |-> <<"D", "O", "U", "B", "L", "E", " ", "P", "R", "E", "C", "I", "S", "I", "O", "N">>,
                     mysql |-> <<"D", "O", "U", "B", "L", "E">>,
                     sqlite |-> <<"R", "E", "A", "L">>])
    @@ ("real" :> [pg |-> <<"R", "E", "A", "L">>,
                    mysql |-> <<"F", "L", "O", "A", "T">>,
                    sqlite |-> <<"R", "E", "A", "L">>])
    @@ ("datetime" :> [pg |-> <<"T", "I", "M", "E", "S", "T", "A", "M", "P">>,
                        mysql |-> <<"D", "A", "T", "E", "T", "I", "M", "E">>,
                        sqlite |-> <<"T", "E", "X", "T">>])
    @@ ("datetime2" :> [pg |-> <<"T", "I", "M", "E", "S", "T", "A", "M", "P">>,
                         mysql |-> <<"D", "A", "T", "E", "T", "I", "M", "E", "(", "6", ")">>,
                         sqlite |-> <<"T", "E", "X", "T">>])
    @@ ("date" :> [pg |-> <<"D", "A", "T", "E">>,
                    mysql |-> <<"D", "A", "T", "E">>,
                    sqlite |-> <<"T", "E", "X", "T">>])
    @@ ("time" :> [pg |-> <<"T", "I", "M", "E">>,
                    mysql |-> <<"T", "I", "M", "E">>,
                    sqlite |-> <<"T", "E", "X", "T">>])
    @@ ("char" :> [pg |-> <<"C", "H", "A", "R">>,
                    mysql |-> <<"C", "H", "A", "R">>,
                    sqlite |-> <<"T", "E", "X", "T">>])
    @@ ("varchar" :> [pg |-> <<"V", "A", "R", "C", "H", "A", "R">>,
                       mysql |-> <<"V", "A", "R", "C", "H", "A", "R">>,
                       sqlite |-> <<"T", "E", "X", "T">>])
    @@ ("nvarchar" :> [pg |-> <<"V", "A", "R", "C", "H", "A", "R">>,
                        mysql |-> <<"V", "A", "R", "C", "H", "A", "R">>,
                        sqlite |-> <<"T", "E", "X", "T">>])
    @@ ("nchar" :> [pg |-> <<"C", "H", "A", "R">>,
                     mysql |-> <<"C", "H", "A", "R">>,
                     sqlite |-> <<"T", "E", "X", "T">>])
    @@ ("text" :> [pg |-> <<"T", "E", "X", "T">>,
                    mysql |-> <<"T", "E", "X", "T">>,
                    sqlite |-> <<"T", "E", "X", "T">>])
    @@ ("ntext" :> [pg |-> <<"T", "E", "X", "T">>,
                     mysql |-> <<"T", "E", "X", "T">>,
                     sqlite |-> <<"T", "E", "X", "T">>])
    @@ ("xml" :> [pg |-> <<"X", "M", "L">>,
                   mysql |-> <<"T", "E", "X", "T">>,
                   sqlite |-> <<"T", "E", "X", "T">>])
    @@ ("uniqueidentifier" :> [pg |-> <<"U", "U", "I", "D">>,
                                mysql |-> <<"C", "H", "A", "R", "(", "3", "6", ")">>,
                                sqlite |-> <<"T", "E", "X", "T">>])
    @@ ("varbinary" :> [pg |-> <<"B", "Y", "T", "E", "A">>,
                         mysql |-> <<"V", "A", "R", "B", "I", "N", "A", "R", "Y">>,
                         sqlite |-> <<"B", "L", "O", "B">>])
    @@ ("image" :> [pg |-> <<"B", "Y", "T", "E", "A">>,
                     mysql |-> <<"L", "O", "N", "G", "B", "L", "O", "B">>,
                     sqlite |-> <<"B", "L", "O", "B">>])
    @@ ("timestamp" :> [pg |-> <<"B", "Y", "T", "E", "A">>,
                         mysql |-> <<"B", "I", "N", "A", "R", "Y", "(", "8", ")">>,
                         sqlite |-> <<"B", "L", "O", "B">>])
    @@ ("hierarchyid" :> [pg |-> <<"T", "E", "X", "T">>,
                           mysql |-> <<"V", "A", "R", "C", "H", "A", "R", "(", "8", "9", "2", ")">>,
                           sqlite |-> <<"T", "E", "X", "T">>])

W_TEXT == <<"T", "E", "X", "T">>

W_minus1 == <<"-", "1">>

W_VARCHAR == <<"V", "A", "R", "C", "H", "A", "R">>

W_VARBINARY == <<"V", "A", "R", "B", "I", "N", "A", "R", "Y">>

W_BYTEA == <<"B", "Y", "T", "E", "A">>

W_LONGBLOB == <<"L", "O", "N", "G", "B", "L", "O", "B">>

W_VARCHAR_892 == <<"V", "A", "R", "C", "H", "A", "R", "(", "8", "9", "2", ")">>

W_REAL == <<"R", "E", "A", "L">>

W_BLOB == <<"B", "L", "O", "B">>

W_INTEGER == <<"I", "N", "T", "E", "G", "E", "R">>

RECURSIVE DigitsValue(_)
DigitsValue(body) ==
    IF body = <<>> THEN 0
    ELSE 10 * DigitsValue(SubSeq(body, 1, Len(body) - 1)) + DigitValue(body[Len(body)])

\* int(text), where it does not raise
IntValue(text) ==
    LET stripped == Strip(text) IN
    IF stripped[1] = "-" THEN 0 - DigitsValue(Unsigned(stripped))
    ELSE DigitsValue(Unsigned(stripped))

RECURSIVE NatText(_)
NatText(n) ==
    IF n < 10 THEN <<DigitChars[n + 1]>>
    ELSE NatText(n \div 10) \o <<DigitChars[(n % 10) + 1]>>

\* str(n) of an int, as an f-string formats it
IntText(n) == IF n < 0 THEN <<"-">> \o NatText(0 - n) ELSE NatText(n)

\* `base_type in TYPE_MAPPING`
InMapping(base_type) == \E k \in DOMAIN TYPE_MAPPING : TypeText[k] = base_type

KeyOf(base_type) == CHOOSE k \in DOMAIN TYPE_MAPPING : TypeText[k] = base_type

\* f"{name}({a})" and f"{name}({a},{b})"
WithArgOmitted(name, a) == name

WithArg(name, a) == name \o <<"(">> \o a \o <<")">>

WithArgsSwapped(name, a, b) == name \o <<"(">> \o b \o <<",">> \o a \o <<")">>

WithArgs(name, a, b) == name \o <<"(">> \o a \o <<",">> \o b \o <<")">>

\* the last line of each resolver: `return "TEXT"  # Default`
DefaultTypeNone == <<>>

DefaultType == W_TEXT

convert_type_mssql_to_pg(mssql_type, max_length, precision, scale) ==
    LET base_type == Lower(mssql_type) IN
    IF ~InMapping(base_type) THEN DefaultType
    ELSE LET key == KeyOf(base_type)
             pg_type == TYPE_MAPPING[key].pg IN
         IF key = "xml" THEN W_TEXT
         ELSE IF key \in {"varchar", "nvarchar", "char", "nchar"}
         THEN IF max_length # None /\ max_length # W_minus1
              THEN WithArg(pg_type, max_length)
              ELSE W_TEXT
         ELSE IF key \in {"decimal", "numeric"}
         THEN IF precision # None /\ scale # None THEN WithArgs(pg_type, precision, scale)
              ELSE IF precision # None THEN WithArg(pg_type, precision)
              ELSE pg_type
         ELSE IF key = "varbinary"
         THEN IF max_length # None /\ max_length # W_minus1
              THEN WithArg(W_VARBINARY, max_length)
              ELSE W_BYTEA
         ELSE pg_type

\* the branch of varchar / nvarchar / char / nchar with a usable max_length;
\* the except clauses of both int() calls give TEXT
MysqlCharType(key, mysql_type, max_length) ==
    IF ~IsInt(max_length) THEN W_TEXT
    ELSE LET max_len_int == IntValue(max_length) IN
         IF key \in {"nvarchar", "nchar"}
         THEN IF max_len_int > 16383 \/ max_len_int * 3 > 65535
              THEN W_TEXT
              ELSE WithArg(W_VARCHAR, IntText(Min(max_len_int * 4, 65535)))
         ELSE IF max_len_int > 65535
              THEN W_TEXT
              ELSE WithArg(mysql_type, max_length)

convert_type_mssql_to_mysql(mssql_type, max_length, precision, scale) ==
    LET base_type == Lower(mssql_type) IN
    IF ~InMapping(base_type) THEN DefaultType
    ELSE LET key == KeyOf(base_type)
             mysql_type == TYPE_MAPPING[key].mysql IN
         IF key = "xml" THEN W_TEXT
         ELSE IF key = "hierarchyid"
         THEN IF max_length # None /\ max_length # W_minus1
              THEN WithArg(W_VARCHAR, max_length)
              ELSE W_VARCHAR_892
         ELSE IF key \in {"varchar", "nvarchar", "char", "nchar"}
         THEN IF max_length # None /\ max_length # W_minus1 /\ max_length # W_NULL
              THEN MysqlCharType(key, mysql_type, max_length)
              ELSE W_TEXT
         ELSE IF key \in {"decimal", "numeric"}
         THEN IF precision # None /\ scale # None THEN WithArgs(mysql_type, precision, scale)
              ELSE IF precision # None THEN WithArg(mysql_type, precision)
              ELSE mysql_type
         ELSE IF key = "varbinary"
         THEN IF max_length # None /\ max_length # W_minus1
              THEN WithArg(W_VARBINARY, max_length)
              ELSE W_LONGBLOB
         ELSE mysql_type

convert_type_mssql_to_sqlite(mssql_type, max_length, precision, scale) ==
    LET base_type == Lower(mssql_type) IN
    IF ~InMapping(base_type) THEN DefaultType
    ELSE LET key == KeyOf(base_type)
             sqlite_type == TYPE_MAPPING[key].sqlite IN
         IF key \in {"decimal", "numeric", "money", "smallmoney"} THEN W_REAL
         ELSE IF key \in {"varchar", "nvarchar", "char", "nchar", "text", "ntext", "xml"} THEN W_TEXT
         ELSE IF key \in {"varbinary", "image", "timestamp"} THEN W_BLOB
         ELSE IF key = "hierarchyid" THEN W_TEXT
         ELSE IF key = "uniqueidentifier" THEN W_TEXT
         ELSE IF key \in {"datetime", "datetime2", "date", "time"} THEN W_TEXT
         ELSE IF key \in {"int", "bigint", "smallint", "tinyint", "bit"} THEN W_INTEGER
         ELSE IF key \in {"float", "real"} THEN W_REAL
         ELSE sqlite_type

convert_type(d, mssql_type, max_length, precision, scale) ==
    CASE d = "pg" -> convert_type_mssql_to_pg(mssql_type, max_length, precision, scale)
      [] d = "mysql" -> convert_type_mssql_to_mysql(mssql_type, max_length, precision, scale)
      [] OTHER -> convert_type_mssql_to_sqlite(mssql_type, max_length, precision, scale)

\* the type names given to a resolver: every key of the mapping and a name
\* that is not a key, in lower case, in upper case and capitalized
TypeNameInputs ==
    UNION {{TypeText[k], Upper(TypeText[k]), Capitalized(TypeText[k])} : k \in DOMAIN TypeText}

\* max_length: absent, '-1', 'NULL', numbers around the limits, not a number
LengthInputs ==
    {None, W_minus1, W_NULL, <<"5", "0">>, <<"2", "5", "6">>, <<"1", "6", "3", "8", "3">>,
     <<"1", "6", "3", "8", "4">>, <<"6", "5", "5", "3", "6">>, <<"m", "a", "x">>}

\* precision and scale: absent, '-1', 'NULL', zero, a number, not a number
NumberInputs == {None, W_minus1, W_NULL, <<"0">>, <<"1", "0">>, <<"x">>}

\* what a resolver does not touch, but for the position of its caller
outsideResolve == <<dialect, columns, transferCore, pageVars, renderVars, mainVars, ddlVars,
                    tupleVars, pagingVars, scriptVars>>

InitResolve ==
    /\ dialect \in BatchDialects
    /\ columns = <<>>
    /\ NoTransfer
    /\ NoMain
    /\ NoDDL
    /\ NoTuples
    /\ NoPaging
    /\ NoScript
    /\ resolveArgs \in [mssql_type : TypeNameInputs, max_length : LengthInputs,
                        precision : NumberInputs, scale : NumberInputs]
    /\ declared = <<>>
    /\ pc = "resolve"

ResolvePg ==
    /\ pc = "resolve" /\ dialect = "pg"
    /\ declared' = convert_type_mssql_to_pg(resolveArgs.mssql_type, resolveArgs.max_length,
                                            resolveArgs.precision, resolveArgs.scale)
    /\ pc' = "resolved"
    /\ UNCHANGED <<outsideResolve, resolveArgs>>

ResolveMysql ==
    /\ pc = "resolve" /\ dialect = "mysql"
    /\ declared' = convert_type_mssql_to_mysql(resolveArgs.mssql_type, resolveArgs.max_length,
                                               resolveArgs.precision, resolveArgs.scale)
    /\ pc' = "resolved"
    /\ UNCHANGED <<outsideResolve, resolveArgs>>

ResolveSqlite ==
    /\ pc = "resolve" /\ dialect = "sqlite"
    /\ declared' = convert_type_mssql_to_sqlite(resolveArgs.mssql_type, resolveArgs.max_length,
                                                resolveArgs.precision, resolveArgs.scale)
    /\ pc' = "resolved"
    /\ UNCHANGED <<outsideResolve, resolveArgs>>

NextResolve ==
    \/ ResolvePg
    \/ ResolveMysql
    \/ ResolveSqlite

SpecResolve == InitResolve /\ [][NextResolve]_vars

-----------------------------------------------------------------------------
(* Provisioning of one table: create_table_pg / _mysql / _sqlite, and *)
(* create_table_mssql_sql with the run_sql_mssql of its caller        *)

\* bound on the number of columns of a provisioned table, TableIdentity apart
MaxColumns == 2

\* the characters of the column names
NameText ==
       ("ID" :> <<"I", "D">>)
    @@ ("Name" :> <<"N", "a", "m", "e">>)
    @@ ("Flag" :> <<"F", "l", "a", "g">>)

ColumnNames == <<"ID", "Name", "Flag">>

\* columns by type, key membership and identity; identity only on exact numbers
ColumnShapes ==
    {Column("", "int", FALSE, None, <<"1", "0">>, <<"0">>, pk, id) : pk \in BOOLEAN, id \in BOOLEAN}
    \cup {Column("", "decimal", FALSE, None, <<"1", "8">>, <<"0">>, TRUE, TRUE)}
    \cup {Column("", "nvarchar", FALSE, n, None, None, pk, FALSE) : n \in {<<"5", "0">>, <<"2", "0", "0">>}, pk \in BOOLEAN}
    \cup {Column("", "varchar", FALSE, <<"8", "0", "0">>, None, None, TRUE, FALSE),
          Column("", "nvarchar", FALSE, W_minus1, None, None, TRUE, FALSE),
          Column("", "hierarchyid", FALSE, <<"8", "9", "2">>, None, None, TRUE, FALSE),
          Column("", "bit", TRUE, None, None, None, FALSE, FALSE)}

\* the column lists given to the create_table functions
DDLTables ==
    {TableIdentity} \cup
    UNION {{[i \in 1..n |-> [shapes[i] EXCEPT !.name = ColumnNames[i]]] :
               shapes \in {s \in [1..n -> ColumnShapes] :
                              Cardinality({i \in 1..n : s[i].is_identity}) <= 1}} :
           n \in 1..MaxColumns}

RECURSIVE JoinText(_, _)
\* sep.join(parts)
JoinText(parts, sep) ==
    IF parts = <<>> THEN <<>>
    ELSE IF Len(parts) = 1 THEN parts[1]
    ELSE parts[1] \o sep \o JoinText(Tail(parts), sep)

IntegerFamily == {"int", "bigint", "smallint", "tinyint"}

\* `col['data_type'].lower() in [...]`
TypeIn(c, keys) == \E k \in keys : Lower(TypeText[c.data_type]) = TypeText[k]

\* `sum(1 for c in columns if c['is_pk'])`
NumPkCols(cols) == Cardinality({i \in 1..Len(cols) : cols[i].is_pk})

\* `"" if col['is_nullable'] else " NOT NULL"`
Nullable(c) == IF c.is_nullable THEN <<>> ELSE <<" ", "N", "O", "T", " ", "N", "U", "L", "L">>

W_PRIMARY_KEY == <<"P", "R", "I", "M", "A", "R", "Y", " ", "K", "E", "Y", " ", "(">>

\* f"PRIMARY KEY ({', '.join(pk_cols)})"
PkClause(pk_cols) == W_PRIMARY_KEY \o JoinText(pk_cols, <<",", " ">>) \o <<")">>

WithPk(defs, pk_cols) == IF pk_cols # <<>> THEN Append(defs, PkClause(pk_cols)) ELSE defs

\* the grave accent that quotes identifiers for MySQL and SQLite, written
\* here with a character that occurs nowhere else in the statements
GRAVE == "^"

BackQuoted(name) == <<GRAVE>> \o NameText[name] \o <<GRAVE>>

W_AUTOINCREMENT == <<" ", "P", "R", "I", "M", "A", "R", "Y", " ", "K", "E", "Y", " ", "A", "U", "T", "O", "I", "N", "C", "R", "E", "M", "E", "N", "T">>

\* create_table_sqlite: the column is the single identity key of integer type
SqliteAutoincrement(c, cols) ==
    c.is_identity /\ c.is_pk /\ NumPkCols(cols) = 1 /\ TypeIn(c, IntegerFamily)

SqliteColDef(c, cols) ==
    LET sqlite_type == convert_type_mssql_to_sqlite(TypeText[c.data_type], c.max_length,
                                                    c.precision, c.scale)
    IN  IF SqliteAutoincrement(c, cols)
        THEN BackQuoted(c.name) \o <<" ">> \o sqlite_type \o W_AUTOINCREMENT
        ELSE BackQuoted(c.name) \o <<" ">> \o sqlite_type \o Nullable(c)

\* create_table_sqlite: col_defs
SqliteColDefs(cols) ==
    LET keys == SelectSeq(cols, LAMBDA c : c.is_pk /\ ~(c.is_identity /\ NumPkCols(cols) = 1))
        pk_cols == [i \in 1..Len(keys) |-> BackQuoted(keys[i].name)]
    IN  WithPk([i \in 1..Len(cols) |-> SqliteColDef(cols[i], cols)], pk_cols)

W_GENERATED == <<" ", "G", "E", "N", "E", "R", "A", "T", "E", "D", " ", "A", "L", "W", "A", "Y", "S", " ", "A", "S", " ", "I", "D", "E", "N", "T", "I", "T", "Y">>

PgColDef(c) ==
    LET pg_type == convert_type_mssql_to_pg(TypeText[c.data_type], c.max_length,
                                            c.precision, c.scale)
        identity == IF c.is_identity THEN W_GENERATED ELSE <<>>
    IN  <<"\"">> \o NameText[c.name] \o <<"\"", " ">> \o pg_type \o identity \o Nullable(c)

\* create_table_pg: col_defs
PgColDefs(cols) ==
    LET keys == SelectSeq(cols, LAMBDA c : c.is_pk)
        pk_cols == [i \in 1..Len(keys) |-> <<"\"">> \o NameText[keys[i].name] \o <<"\"">>]
    IN  WithPk([i \in 1..Len(cols) |-> PgColDef(cols[i])], pk_cols)

W_AUTO_INCREMENT == <<" ", "A", "U", "T", "O", "_", "I", "N", "C", "R", "E", "M", "E", "N", "T">>

MysqlColDef(c, cols) ==
    LET mysql_type == convert_type_mssql_to_mysql(TypeText[c.data_type], c.max_length,
                                                  c.precision, c.scale)
        auto_increment == IF c.is_identity /\ c.is_pk /\ NumPkCols(cols) = 1
                          THEN W_AUTO_INCREMENT ELSE <<>>
    IN  BackQuoted(c.name) \o <<" ">> \o mysql_type \o auto_increment \o Nullable(c)

\* the prefix length of a key column of max_len characters, 0 for none
MysqlPrefix(wide, max_len) ==
    IF wide /\ max_len * 4 > 767 THEN 191
    ELSE IF max_len > 767 THEN 767
    ELSE 0

\* create_table_mysql: the entry of a key column in pk_cols
MysqlPkCol(c) ==
    LET plain == BackQuoted(c.name)
        prefixed(p) == IF p = 0 THEN plain ELSE WithArg(plain, IntText(p))
    IN  IF TypeIn(c, {"hierarchyid"}) THEN prefixed(191)
        ELSE IF TypeIn(c, {"nvarchar", "varchar"}) /\ c.max_length # None
        THEN IF IsInt(c.max_length)
             THEN prefixed(MysqlPrefix(TypeIn(c, {"nvarchar"}), IntValue(c.max_length)))
             ELSE plain
        ELSE IF TypeIn(c, {"nchar", "char"}) /\ c.max_length # None
        THEN IF IsInt(c.max_length)
             THEN prefixed(MysqlPrefix(TypeIn(c, {"nchar"}), IntValue(c.max_length)))
             ELSE plain
        ELSE plain

\* create_table_mysql: col_defs
MysqlColDefs(cols) ==
    LET keys == SelectSeq(cols, LAMBDA c : c.is_pk)
        pk_cols == [i \in 1..Len(keys) |-> MysqlPkCol(keys[i])]
    IN  WithPk([i \in 1..Len(cols) |-> MysqlColDef(cols[i], cols)], pk_cols)

W_MAX == <<"M", "A", "X">>

W_IDENTITY == <<" ", "I", "D", "E", "N", "T", "I", "T", "Y", "(", "1", ",", "1", ")">>

\* create_table_mssql_sql: type_def
MssqlTypeDef(c) ==
    LET mssql_type == Upper(TypeText[c.data_type]) IN
    IF mssql_type \in {Upper(TypeText[k]) : k \in {"varchar", "nvarchar", "char", "nchar"}}
    THEN IF c.max_length # None /\ c.max_length # W_minus1 /\ c.max_length # W_NULL
         THEN WithArg(mssql_type, c.max_length)
         ELSE WithArg(mssql_type, W_MAX)
    ELSE IF mssql_type \in {Upper(TypeText[k]) : k \in {"decimal", "numeric"}}
    THEN IF c.precision # None /\ c.scale # None THEN WithArgs(mssql_type, c.precision, c.scale)
         ELSE IF c.precision # None THEN WithArg(mssql_type, c.precision)
         ELSE mssql_type
    ELSE IF mssql_type = Upper(TypeText["float"])
    THEN IF c.precision # None THEN WithArg(mssql_type, c.precision) ELSE mssql_type
    ELSE mssql_type

MssqlColDef(c) ==
    LET identity == IF c.is_identity THEN W_IDENTITY ELSE <<>> IN
    <<"[">> \o NameText[c.name] \o <<"]", " ">> \o MssqlTypeDef(c) \o identity \o Nullable(c)

\* create_table_mssql_sql: col_defs followed by pk_clause, whose text starts
\* with the separator that joins the column definitions
MssqlColDefs(cols) ==
    LET keys == SelectSeq(cols, LAMBDA c : c.is_pk)
        pk_cols == [i \in 1..Len(keys) |-> <<"[">> \o NameText[keys[i].name] \o <<"]">>]
    IN  WithPk([i \in 1..Len(cols) |-> MssqlColDef(cols[i])], pk_cols)

ColDefs(d, cols) ==
    CASE d = "pg" -> PgColDefs(cols)
      [] d = "mysql" -> MysqlColDefs(cols)
      [] d = "sqlite" -> SqliteColDefs(cols)
      [] OTHER -> MssqlColDefs(cols)

\* CREATE SCHEMA IF NOT EXISTS; IF NOT EXISTS (...) EXEC('CREATE SCHEMA ...')
SchemaStatement == [kind |-> "create_schema", guard |-> "if_not_exists", col_defs |-> <<>>]

\* a statement in the place of the drop that does not drop
DropStatementAbsent == [kind |-> "select", guard |-> "none", col_defs |-> <<>>]

\* DROP TABLE IF EXISTS; IF EXISTS (...) DROP TABLE
DropStatement == [kind |-> "drop_table", guard |-> "if_exists", col_defs |-> <<>>]

CreateStatement(d, cols) == [kind |-> "create_table", guard |-> "none", col_defs |-> ColDefs(d, cols)]

\* what a create_table function does not touch, but for pc
outsideDDL == <<dialect, columns, transferCore, pageVars, renderVars, mainVars, resolveVars,
                tupleVars, pagingVars, scriptVars>>

InitDDL ==
    /\ dialect \in Dialects
    /\ columns \in DDLTables
    /\ NoTransfer
    /\ NoMain
    /\ NoResolve
    /\ NoTuples
    /\ NoPaging
    /\ NoScript
    /\ statements = <<>>
    /\ created = FALSE
    /\ pc = "provision"

\* create_table_pg: the schema first; its failure ends the call
PgCreateSchema ==
    /\ pc = "provision" /\ dialect = "pg"
    /\ statements' = Append(statements, SchemaStatement)
    /\ \E code \in {"ok", "fail"} :
         pc' = IF code = "ok" THEN "drop" ELSE "provisioned"
    /\ UNCHANGED <<outsideDDL, created>>

\* the drop, whose status is not looked at
DropTable ==
    /\ \/ pc = "drop"
       \/ pc = "provision" /\ dialect \in {"mysql", "sqlite"}
    /\ statements' = Append(statements, DropStatement)
    /\ pc' = "create"
    /\ UNCHANGED <<outsideDDL, created>>

\* the CREATE TABLE and `return code == 0, result`
CreateTable ==
    /\ pc = "create"
    /\ statements' = Append(statements, CreateStatement(dialect, columns))
    /\ \E code \in {"ok", "fail"} : created' = (code = "ok")
    /\ pc' = "provisioned"
    /\ UNCHANGED outsideDDL

\* the three statements of create_table_mssql_sql, run as one batch
MssqlCreateScript ==
    /\ pc = "provision" /\ dialect = "mssql"
    /\ statements' = statements \o <<SchemaStatement, DropStatement, CreateStatement(dialect, columns)>>
    /\ \E code \in {"ok", "fail"} : created' = (code = "ok")
    /\ pc' = "provisioned"
    /\ UNCHANGED outsideDDL

NextDDL ==
    \/ PgCreateSchema
    \/ DropTable
    \/ CreateTable
    \/ MssqlCreateScript

SpecDDL == InitDDL /\ [][NextDDL]_vars

-----------------------------------------------------------------------------
(* One table from its creation to the value tuples of its first page:      *)
(* create_table_*, then the page loop of the transfer function up to       *)
(* batch_values.                                                           *)

\* the rows of (ID, Name, Flag): row `empty` has no Flag, which sqlcmd prints as NULL
ScenarioRows(empty, flags) ==
    [r \in 1..3 |-> << <<DigitChars[r + 1]>>,
                       <<"a", DigitChars[r + 1]>>,
                       IF r = empty THEN W_NULL ELSE flags[r] >>]

\* `val = row[i] if i < len(row) else ''`, `val = val.strip() if val else ''` and the
\* branch of the column's type
RenderValueFalse(d, c, field) ==
    LET v == IF field # <<>> THEN Strip(field) ELSE <<>> IN
    IF c.data_type = "bit" /\ (v = W_NULL \/ v = <<>>)
       THEN (IF d = "pg" THEN W_FALSE ELSE <<"0">>)
    ELSE IF d = "pg" THEN PgRender(c, v)
    ELSE IF d = "mysql" THEN MysqlRender(c, v)
    ELSE SqliteRender(c, v)

RenderValue(d, c, field) ==
    LET v == IF field # <<>> THEN Strip(field) ELSE <<>> IN
    IF d = "pg" THEN PgRender(c, v)
    ELSE IF d = "mysql" THEN MysqlRender(c, v)
    ELSE SqliteRender(c, v)

\* f"({', '.join(values)})"
ValueTuple(d, cols, row) ==
    LET values == [i \in 1..Len(cols) |->
                      RenderValue(d, cols[i], IF i <= Len(row) THEN row[i] ELSE <<>>)]
    IN  <<"(">> \o JoinText(values, <<",", " ">>) \o <<")">>

outsideTuples == <<dialect, columns, transferCore, renderVars, mainVars, resolveVars, ddlVars,
                   pagingVars, scriptVars>>

InitScenario ==
    /\ dialect \in Dialects
    /\ columns = TableIdentity
    /\ NoTransfer
    /\ NoMain
    /\ NoResolve
    /\ NoDDL
    /\ NoTuples
    /\ NoPaging
    /\ NoScript
    /\ pc = "provision"

\* step 2 of __main__ calls the transfer of a table that was created; the source
\* answers the first page query
ReadFirstPage ==
    /\ pc = "provisioned" /\ created /\ dialect \in BatchDialects
    /\ \E empty \in 1..3, flags \in [1..3 -> {<<"0">>, <<"1">>}] :
         /\ logicalRows' = ScenarioRows(empty, flags)
         /\ data_result' = PageText(logicalRows', wrapped)
    /\ pc' = "split_lines"
    /\ UNCHANGED <<outsideTuples, unread, current_line, lines, rows, wrapped, batch_values>>

\* `for row in rows`: one value tuple per row of the page
BuildValues ==
    /\ pc = "parsed"
    /\ batch_values' = [r \in 1..Len(rows) |-> ValueTuple(dialect, columns, rows[r])]
    /\ pc' = "emitted"
    /\ UNCHANGED <<outsideTuples, pageVars>>

NextScenario ==
    \/ NextDDL
    \/ ReadFirstPage
    \/ NextParse
    \/ BuildValues

SpecScenario == InitScenario /\ [][NextScenario]_vars

-----------------------------------------------------------------------------
(* The page queries of one transfer: ORDER BY [order_by_col] OFFSET ... FETCH *)

\* rows that may share the value of the ordering column
MaxTied == 3

\* column lists: a composite key, a single key, no key behind an xml column
TableOrderLines ==
    << Column("OrderID", "int", FALSE, None, <<"1", "0">>, <<"0">>, TRUE, FALSE),
       Column("LineID", "int", FALSE, None, <<"1", "0">>, <<"0">>, TRUE, FALSE) >>

TableLines ==
    << Column("LineID", "int", FALSE, None, <<"1", "0">>, <<"0">>, TRUE, TRUE),
       Column("OrderID", "int", FALSE, None, <<"1", "0">>, <<"0">>, FALSE, FALSE) >>

TableNotes ==
    << Column("Notes", "xml", TRUE, <<"-", "1">>, None, None, FALSE, FALSE),
       Column("OrderID", "int", FALSE, None, <<"1", "0">>, <<"0">>, FALSE, FALSE),
       Column("LineID", "int", FALSE, None, <<"1", "0">>, <<"0">>, FALSE, FALSE) >>

PagingTables == {TableOrderLines, TableLines, TableNotes}

\* row i of the source: LineID is unique, OrderID is shared by the rows tied.lo..tied.hi
SourceRow(i) ==
    [LineID |-> i, OrderID |-> IF tied.lo <= i /\ i <= tied.hi THEN tied.lo ELSE i, Notes |-> 0]

\* (pk_cols[0] if pk_cols else non_xml_cols[0]) if non_xml_cols else col_names[0]
OrderByCol(cols) ==
    LET pk_cols      == SelectSeq(cols, LAMBDA c : c.is_pk)
        non_xml_cols == SelectSeq(cols, LAMBDA c : c.data_type # "xml")
    IN  IF non_xml_cols # <<>>
           THEN (IF pk_cols # <<>> THEN pk_cols[1].name ELSE non_xml_cols[1].name)
           ELSE cols[1].name

\* the orders in which the source may return the rows of ORDER BY [by]: rows of
\* equal value come in any order, chosen anew by every query (the values of every
\* column of SourceRow do not decrease with i, so equal values are neighbours)
RowOrders(n, by) ==
    LET same == {i \in 1..n : \/ i > 1 /\ SourceRow(i - 1)[by] = SourceRow(i)[by]
                              \/ i < n /\ SourceRow(i + 1)[by] = SourceRow(i)[by]}
    IN  {[i \in 1..n |-> IF i \in same THEN f[i] ELSE i] :
            f \in {g \in [same -> same] : \A a, b \in same : g[a] = g[b] => a = b}}

outsidePaging == <<dialect, srcTable, srcRows, srcDropped, tgtExists, tgtStale, tgtNew, tgtInitial,
                   envFault, jobState, result, columns, table_exists, total_rows, copied_count,
                   batch, batch_start, pageChunks, fetched, issued, insert_code, insert_result,
                   pageVars, renderVars, mainVars, resolveVars, ddlVars, tupleVars, scriptVars>>

InitPaging ==
    /\ dialect \in BatchDialects
    /\ columns \in PagingTables
    /\ srcTable = columns
    /\ srcRows \in RowCounts \ {0}
    /\ tied \in {[lo |-> 0, hi |-> 0]}
                  \cup {t \in [lo : 1..srcRows, hi : 1..srcRows] :
                           /\ t.lo < t.hi /\ t.hi - t.lo < MaxTied
                           /\ \E p \in 1..MaxPages : t.lo <= p * batch_size /\ p * batch_size <= t.hi}
    /\ total_rows = srcRows
    /\ srcDropped = 0
    /\ tgtExists = TRUE
    /\ tgtStale = 0
    /\ tgtNew = 0
    /\ tgtInitial = 0
    /\ envFault = FALSE
    /\ jobState = "Copying"
    /\ result = [success |-> FALSE, rows |-> 0]
    /\ table_exists = TRUE
    /\ offset = 0
    /\ copied_count = 0
    /\ batch = 0
    /\ batch_start = 0
    /\ pageChunks = <<>>
    /\ fetched = <<>>
    /\ issued = NoStatements
    /\ insert_code = "none"
    /\ insert_result = <<>>
    /\ NoPage
    /\ NoValue
    /\ NoMain /\ NoResolve /\ NoDDL /\ NoTuples /\ NoScript
    /\ order_by_col = ""
    /\ pages = <<>>
    /\ pc = "order"

\* before the loop: the ordering column of every page query of the call
ChooseOrderColumn ==
    /\ pc = "order"
    /\ order_by_col' = OrderByCol(columns)
    /\ pc' = "page_loop"
    /\ UNCHANGED <<outsidePaging, offset, tied, pages>>

\* one turn of `while offset < total_rows` whose INSERTs succeed: the rows
\* offset+1 .. offset+batch_size of the order the source chose for this query
QueryPage ==
    /\ pc = "page_loop" /\ offset < total_rows
    /\ \E order \in RowOrders(total_rows, order_by_col) :
         pages' = Append(pages, SubSeq(order, offset + 1, Min(offset + batch_size, total_rows)))
    /\ offset' = offset + batch_size
    /\ UNCHANGED <<outsidePaging, pc, tied, order_by_col>>

\* the loop ends
EndPaging ==
    /\ pc = "page_loop" /\ offset >= total_rows
    /\ pc' = "paged"
    /\ UNCHANGED <<outsidePaging, offset, tied, order_by_col, pages>>

NextPaging ==
    \/ ChooseOrderColumn
    \/ QueryPage
    \/ EndPaging

SpecPaging == InitPaging /\ [][NextPaging]_vars

-----------------------------------------------------------------------------
(* The INSERT statements of a transfer and the identity override *)

\* INSERT statements one call sends in the chunk loop
MaxChunks == 2

\* (mutant) the identity test made on the first column only
has_identity_first(cols) == cols[1].is_identity

\* any(col['is_identity'] for col in columns)
has_identity(cols) == \E i \in 1..Len(cols) : cols[i].is_identity

\* SET IDENTITY_INSERT [schema].[table] ON; / OFF;  ("" without identity column)
IdentityInsert(cols, on) ==
    IF has_identity(cols) THEN <<[kind |-> "identity_insert", arg |-> on]>> ELSE <<>>

\* the INSERT of dialect d; arg is the clause between the column list and VALUES
InsertStatement(d, cols) ==
    [kind |-> "insert",
     arg  |-> IF d = "pg" /\ has_identity(cols) THEN "OVERRIDING SYSTEM VALUE" ELSE ""]

\* the script of copy_data_mssql_to_mssql
MssqlInsertScriptText(cols) ==
    IdentityInsert(cols, "ON") \o <<InsertStatement("mssql", cols)>> \o IdentityInsert(cols, "OFF")

\* IDENTITY_INSERT after the first n statements of a script were executed
RECURSIVE SettingAfter(_, _)
SettingAfter(stmts, n) ==
    IF n = 0 THEN "off"
    ELSE IF stmts[n].kind = "identity_insert" THEN (IF stmts[n].arg = "ON" THEN "on" ELSE "off")
    ELSE SettingAfter(stmts, n - 1)

outsideScript == <<dialect, columns, transferCore, pageVars, renderVars, mainVars, resolveVars,
                   ddlVars, tupleVars, pagingVars>>

InitInsert ==
    /\ dialect \in Dialects
    /\ columns \in DDLTables
    /\ NoTransfer
    /\ NoMain
    /\ NoResolve
    /\ NoDDL
    /\ NoTuples
    /\ NoPaging
    /\ NoScript
    /\ pc = "insert"

\* copy_data_mssql_to_mssql: one batch, sent as a whole.  A statement error of the
\* INSERT leaves the rest of the batch to run ("fail"); an error that ends the
\* batch, or the timeout of the command, does not ("abort").
SendInsertScript ==
    /\ pc = "insert" /\ dialect = "mssql"
    /\ script' = MssqlInsertScriptText(columns)
    /\ \E outcome \in {"ok", "fail", "abort"} :
         /\ ran' = IF outcome = "abort"
                      THEN Len(IdentityInsert(columns, "ON")) + 1
                      ELSE Len(script')
         /\ pc' = IF outcome = "ok" THEN "inserted" ELSE "insert_failed"
    /\ identity_insert' = SettingAfter(script', ran')
    /\ UNCHANGED outsideScript

\* the session of the script ends with the command, and its settings with it
SessionEnds ==
    /\ pc \in {"inserted", "insert_failed"} /\ dialect = "mssql"
    /\ identity_insert' = "off"
    /\ pc' = "returned"
    /\ UNCHANGED <<outsideScript, script, ran>>

\* one turn of the chunk loop of a batch transfer: one INSERT, whatever its status
SendInsertChunk ==
    /\ pc = "insert" /\ dialect \in BatchDialects
    /\ Len(script) < MaxChunks
    /\ script' = Append(script, InsertStatement(dialect, columns))
    /\ \E code \in {"ok", "fail"} : ran' = IF code = "ok" THEN ran + 1 ELSE ran
    /\ UNCHANGED <<outsideScript, pc, identity_insert>>

\* the chunk loop and the page loop end
ChunksSent ==
    /\ pc = "insert" /\ dialect \in BatchDialects
    /\ script # <<>>
    /\ pc' = "returned"
    /\ UNCHANGED <<outsideScript, scriptVars>>

NextInsert ==
    \/ SendInsertScript
    \/ SessionEnds
    \/ SendInsertChunk
    \/ ChunksSent

SpecInsert == InitInsert /\ [][NextInsert]_vars

-----------------------------------------------------------------------------
(* __main__: the four sections, each with its step 1 (structures) and *)
(* step 2 (data)                                                       *)

\* what __main__ itself does not touch
outsideMain == <<calleeVars, resolveVars, ddlVars, tupleVars, pagingVars, scriptVars>>

\* bound on the number of tables a section lists
MaxTables == 2

\* the sections in the order __main__ runs them
Sections == <<"pg", "mysql", "sqlite", "mssql">>

SectionAfter(s) ==
    IF s = "pg" THEN "mysql"
    ELSE IF s = "mysql" THEN "sqlite"
    ELSE IF s = "sqlite" THEN "mssql"
    ELSE "summary"

\* only the MySQL section prepares its database before listing the tables
FirstStep(s) == IF s = "mysql" THEN "database" ELSE "list"

TerminalStates == {"Skipped", "Completed", "Failed"}

\* the pair a transfer function returns in each terminal state
Returned(state) ==
    CASE state = "Skipped" -> [success : {TRUE}, rows : {0, batch_size}]
      [] state = "Completed" -> [success : {TRUE}, rows : {0, batch_size}]
      [] OTHER -> [success : {FALSE}, rows : {0, batch_size}]

InitMain ==
    /\ dialect = "none"
    /\ columns = <<>>
    /\ pc = "none"
    /\ NoTransfer
    /\ NoResolve
    /\ NoDDL
    /\ NoTuples
    /\ NoPaging
    /\ NoScript
    /\ section = Sections[1]
    /\ step = FirstStep(Sections[1])
    /\ all_tables = <<>>
    /\ table_index = 0
    /\ success_tables = <<>>
    /\ failed_tables = <<>>
    /\ total_copied = 0
    /\ total_failed = 0
    /\ introspected = <<>>
    /\ started = <<>>
    /\ job = "Pending"

\* subprocess.run of the CREATE DATABASE command: a status, or TimeoutExpired,
\* which nothing in __main__ catches
CreateDatabase ==
    /\ section = "mysql" /\ step = "database"
    /\ \E outcome \in {"ok", "fail", "raise"} :
         IF outcome = "raise"
         THEN /\ section' = "aborted"
              /\ step' = "none"
         ELSE /\ step' = "list"
              /\ UNCHANGED section
    /\ UNCHANGED <<outsideMain, all_tables, table_index, success_tables, failed_tables,
                   total_copied, total_failed, introspected, started, job>>

\* get_tables_mssql, sorted; then the empty lists of step 1
ListTables ==
    /\ step = "list"
    /\ \E n \in 0..MaxTables : all_tables' = [k \in 1..n |-> k]
    /\ table_index' = 1
    /\ success_tables' = <<>>
    /\ failed_tables' = <<>>
    /\ introspected' = <<>>
    /\ started' = <<>>
    /\ step' = "step1"
    /\ UNCHANGED <<outsideMain, section, total_copied, total_failed, job>>

\* where the loop of step 1 goes after a table whose columns could not be read
AfterNoColumnsBreaks(index, tables) == Len(tables) + 1

AfterNoColumns(index, tables) == index + 1

\* step 1, one table: get_table_definition_mssql; `if not columns: ... continue`
IntrospectTable ==
    /\ step = "step1" /\ table_index <= Len(all_tables)
    /\ introspected' = Append(introspected, all_tables[table_index])
    /\ \E got \in BOOLEAN :
         IF got
         THEN /\ step' = "create"
              /\ UNCHANGED <<table_index, failed_tables>>
         ELSE /\ failed_tables' = Append(failed_tables, all_tables[table_index])
              /\ table_index' = AfterNoColumns(table_index, all_tables)
              /\ UNCHANGED step
    /\ UNCHANGED <<outsideMain, section, all_tables, success_tables, total_copied, total_failed,
                   started, job>>

\* step 1, one table: create_table_pg / _mysql / _sqlite, or the CREATE TABLE
\* statement of create_table_mssql_sql
ProvisionTable ==
    /\ step = "create"
    /\ \E success \in BOOLEAN :
         IF success
         THEN /\ success_tables' = Append(success_tables, all_tables[table_index])
              /\ UNCHANGED failed_tables
         ELSE /\ failed_tables' = Append(failed_tables, all_tables[table_index])
              /\ UNCHANGED success_tables
    /\ table_index' = table_index + 1
    /\ step' = "step1"
    /\ UNCHANGED <<outsideMain, section, all_tables, total_copied, total_failed, introspected,
                   started, job>>

\* the loop of step 1 is over; the tallies of step 2 start at zero
Step1End ==
    /\ step = "step1" /\ table_index > Len(all_tables)
    /\ step' = "step2"
    /\ table_index' = 1
    /\ total_copied' = 0
    /\ total_failed' = 0
    /\ UNCHANGED <<outsideMain, section, all_tables, success_tables, failed_tables, introspected,
                   started, job>>

\* step 2, one table: the call of the transfer function
StartTransfer ==
    /\ step = "step2" /\ table_index <= Len(success_tables)
    /\ started' = Append(started, success_tables[table_index])
    /\ job' = "Copying"
    /\ step' = "copy"
    /\ UNCHANGED <<outsideMain, section, all_tables, table_index, success_tables, failed_tables,
                   total_copied, total_failed, introspected>>

\* step 2, one table: the transfer function returns (success, copied_count)
TransferReturns ==
    /\ step = "copy"
    /\ \E state \in TerminalStates : \E ret \in Returned(state) :
         /\ job' = state
         /\ IF ret.success
            THEN /\ total_copied' = total_copied + ret.rows
                 /\ UNCHANGED total_failed
            ELSE /\ total_failed' = total_failed + 1
                 /\ UNCHANGED total_copied
    /\ table_index' = table_index + 1
    /\ step' = "step2"
    /\ UNCHANGED <<outsideMain, section, all_tables, success_tables, failed_tables, introspected,
                   started>>

\* the loop of step 2 is over: the next section, or the final summary
Step2End ==
    /\ step = "step2" /\ table_index > Len(success_tables)
    /\ section' = SectionAfter(section)
    /\ step' = IF SectionAfter(section) = "summary" THEN "none" ELSE FirstStep(SectionAfter(section))
    /\ UNCHANGED <<outsideMain, all_tables, table_index, success_tables, failed_tables,
                   total_copied, total_failed, introspected, started, job>>

NextMain ==
    \/ CreateDatabase
    \/ ListTables
    \/ IntrospectTable
    \/ ProvisionTable
    \/ Step1End
    \/ StartTransfer
    \/ TransferReturns
    \/ Step2End

SpecMain == InitMain /\ [][NextMain]_vars

\* __main__ is one thread that is never suspended
FairSpecMain == SpecMain /\ WF_vars(NextMain)

-----------------------------------------------------------------------------
(* Properties of the transfer *)

\* C1: a transfer started on a target that already holds exactly total_rows
\* (> 0) rows, and whose statements all return status 0, sends no DELETE,
\* TRUNCATE, INSERT or DDL to the target and fetches no source page, leaves the
\* target's rows as they were, and returns Skipped with the existing row count.
C1_SkipTouchesNothing ==
    (tgtInitial = srcRows /\ srcRows > 0 /\ ~envFault) =>
        /\ issued = NoStatements
        /\ tgtStale = tgtInitial /\ tgtNew = 0
        /\ (pc = "done" => jobState = "Skipped" /\ result = [success |-> TRUE, rows |-> srcRows])

\* C2: the page offsets requested during one transfer are 0, N, 2N, ... in this
\* order, and a transfer that leaves the page loop by its while condition has
\* requested every multiple of N below total_rows, whatever insert chunks failed.
C2_EveryPageRequested ==
    /\ \A i \in 1..Len(fetched) : fetched[i] = (i - 1) * batch_size
    /\ (pc = "done" /\ jobState = "Completed" /\ dialect \in BatchDialects /\ total_rows > 0
          /\ offset >= total_rows)
         => Len(fetched) = CeilDiv(total_rows, batch_size)

\* C3: when the target is found with rows of an earlier run, in a number other
\* than the source's, no INSERT of the transfer is sent while the target still
\* holds those rows, whatever status the clearing statements returned.
C3_NoInsertOverStaleRows ==
    (/\ dialect \in {"mysql", "sqlite"}
     /\ tgtInitial > 0 /\ tgtInitial # srcRows
     /\ issued.insert > 0)
        => tgtStale = 0

\* C7: the slices sent for one page are consecutive, start at the first tuple,
\* hold between 1 and insert_batch_size tuples each, and once the page is flushed
\* there are exactly ceil(k / insert_batch_size) of them and they end at the last
\* tuple; a page of batch_size tuples is flushed as 5 slices of 200.
C7_Chunking ==
    /\ \A i \in 1..Len(pageChunks) :
          /\ pageChunks[i][1] = (IF i = 1 THEN 0 ELSE pageChunks[i - 1][2])
          /\ pageChunks[i][2] - pageChunks[i][1] \in 1..insert_batch_size
          /\ pageChunks[i][2] <= batch
    /\ (pc # "insert" /\ batch > 0) =>
          /\ Len(pageChunks) = CeilDiv(batch, insert_batch_size)
          /\ pageChunks[Len(pageChunks)][2] = batch
    /\ (pc # "insert" /\ batch = 1000) =>
          /\ Len(pageChunks) = 5
          /\ \A i \in 1..5 : pageChunks[i] = <<200 * (i - 1), 200 * i>>

\* a page of 1000 tuples and a page with a short last slice were flushed
C7_Witness ==
    /\ pc = "loop" /\ Len(fetched) = 2
    /\ batch = insert_batch_size + 1 /\ Len(pageChunks) = 2
    /\ copied_count < batch_size + batch

\* C8: the page loop fetches at most ceil(total_rows / batch_size) pages, offset
\* never decreases and is larger after every full turn of the loop, and a
\* transfer that enters Copying returns: Completed from the head of the loop (or
\* after the final count of the direct copy), Failed only from a page fetch.
C8_Terminates ==
    /\ [](issued.fetch <= CeilDiv(total_rows, batch_size))
    /\ [][offset' >= offset /\ (pc = "insert" /\ pc' = "loop" => offset' > offset)]_vars
    /\ [](jobState = "Copying" => <>(pc = "done" /\ jobState \in {"Completed", "Failed"}))
    /\ [][(jobState = "Copying" /\ pc' = "done") =>
             \/ jobState' = "Completed" /\ pc \in {"loop", "final_count"}
             \/ jobState' = "Failed" /\ pc = "loop" /\ issued'.fetch = issued.fetch + 1]_vars

\* a loop of two pages ran to its end
C8_Witness ==
    pc = "done" /\ jobState = "Completed" /\ issued.fetch = 2 /\ offset >= total_rows

\* C9: a page fetch that returns a nonzero status ends the transfer there: the
\* step sends no INSERT or DELETE, leaves the rows inserted by earlier pages in
\* the target, and returns failure with the rows copied so far; nothing follows
\* the return.
C9_ExtractionFailureAborts ==
    /\ [][(pc = "loop" /\ jobState' = "Failed") =>
             /\ pc' = "done"
             /\ tgtNew' = tgtNew /\ tgtStale' = tgtStale /\ tgtExists' = tgtExists
             /\ issued' = [issued EXCEPT !.fetch = @ + 1]
             /\ result' = [success |-> FALSE, rows |-> copied_count]
             /\ copied_count' = copied_count]_vars
    /\ [][pc # "done"]_vars

\* the second page fetch failed after rows of the first page were inserted
C9_Witness ==
    /\ pc = "done" /\ jobState = "Failed" /\ issued.fetch = 2
    /\ tgtNew > 0 /\ result = [success |-> FALSE, rows |-> copied_count] /\ copied_count > 0

\* C10: when the column-metadata query returns a nonzero status or no column,
\* the transfer has sent no statement that creates, drops, clears or inserts
\* into the target, the target is as it was, and failure with 0 rows is returned.
C10_IntrospectionFailureTouchesNothing ==
    (pc = "done" /\ columns = <<>>) =>
        /\ issued = NoStatements
        /\ tgtStale = tgtInitial /\ tgtNew = 0
        /\ jobState = "Failed" /\ result = [success |-> FALSE, rows |-> 0]

\* C4: when one row of a page is hard-wrapped inside a field, the parsed rows
\* are the rows the source serialized: the wrapped row has its len(columns)
\* fields back, equal to the un-wrapped text, and its neighbours are unchanged.
C4_WrappedRowReassembled ==
    (/\ pc = "parsed"
     /\ wrapped.row # 0
     /\ \A p \in wrapped.cuts : LET line == Join(logicalRows[wrapped.row], TAB) IN
                                   line[p] # TAB /\ line[p + 1] # TAB)
        => rows = logicalRows

\* C5: in every dialect an empty or literal-NULL field of a NOT NULL column of
\* the character family is rendered as '' and never as NULL, and an empty field
\* of a nullable column is rendered as NULL.
C5_EmptyTextOfNotNullColumn ==
    pc = "rendered" =>
        /\ (/\ val \in {<<>>, W_NULL}
            /\ ~col.is_nullable
            /\ col.data_type \in {"varchar", "nvarchar", "char", "nchar", "text", "ntext"})
              => literal = <<"'", "'">>
        /\ (val = <<>> /\ col.is_nullable) => literal = W_NULL

\* C6: in every dialect the quoted literal rendered for a value of a character
\* column over quote, backslash and a letter reads back as that value under the
\* dialect's rules for string literals.
C6_EscapingRoundTrip ==
    (/\ pc = "rendered"
     /\ col.data_type \in {"varchar", "nvarchar", "char", "nchar", "text", "ntext"}
     /\ val \notin {<<>>, W_NULL})
        => \A v \in ParsedBack(dialect, literal) : v = val

\* C11: in the MySQL-like and the embedded-file transfer an INSERT rejected with
\* a duplicate-key or a UNIQUE-constraint diagnostic is taken as a conflict: the
\* page offset gets no extra advance (it moves only when the page is finished)
\* and the loop goes on with the next chunk of the page.
C11_ConflictIsRecognized ==
    [][(/\ pc = "insert"
        /\ dialect \in {"mysql", "sqlite"}
        /\ insert_code' = "fail"
        /\ insert_result' \in {DiagDuplicateKey, DiagUniqueConstraint})
          => /\ offset' = offset + (IF pc' = "loop" THEN batch_size ELSE 0)
             /\ pc' \in {"insert", "loop"}]_vars

-----------------------------------------------------------------------------
(* Properties of __main__ *)

IsPrefix(a, b) == Len(a) <= Len(b) /\ SubSeq(b, 1, Len(a)) = a

-----------------------------------------------------------------------------
(* Properties of the type resolvers *)

\* C14: for every type name (a key of the mapping in any letter case, or not
\* a key) and every max_length, precision and scale (absent, '-1', 'NULL', a
\* number, not a number) each resolver returns a declaration that is not
\* empty, that does not depend on the letter case of the name, and that is
\* TEXT when the name is not a key of the mapping.
C14_ResolversTotal ==
    pc = "resolved" =>
        /\ declared # <<>>
        /\ declared = convert_type(dialect, Lower(resolveArgs.mssql_type), resolveArgs.max_length,
                                   resolveArgs.precision, resolveArgs.scale)
        /\ (~InMapping(Lower(resolveArgs.mssql_type)) => declared = W_TEXT)

\* NVARCHAR with a length that is not a number, resolved for MySQL
C14_Witness ==
    /\ pc = "resolved"
    /\ dialect = "mysql"
    /\ resolveArgs.mssql_type = Upper(TypeText["nvarchar"])
    /\ resolveArgs.max_length = <<"m", "a", "x">>
    /\ declared = W_TEXT

-----------------------------------------------------------------------------
(* Properties of the provisioning *)

\* C15: every CREATE TABLE sent by a provisioning call comes after a
\* drop-if-exists sent by the same call, and for pg and mssql a
\* create-schema-if-not-exists was sent before both.
C15_DropBeforeCreate ==
    \A i \in 1..Len(statements) :
        statements[i].kind = "create_table" =>
            \E j \in 1..(i - 1) :
                /\ statements[j].kind = "drop_table"
                /\ statements[j].guard = "if_exists"
                /\ dialect \in {"pg", "mssql"} =>
                       \E k \in 1..(j - 1) : /\ statements[k].kind = "create_schema"
                                             /\ statements[k].guard = "if_not_exists"

\* a table was created for pg after its schema and the drop
C15_Witness ==
    /\ pc = "provisioned"
    /\ dialect = "pg"
    /\ created
    /\ Len(statements) = 3
    /\ statements[3].kind = "create_table"

\* the auto-increment syntax of each dialect
AutoSyntax(d) ==
    CASE d = "pg" -> W_GENERATED
      [] d = "mysql" -> W_AUTO_INCREMENT
      [] d = "sqlite" -> W_AUTOINCREMENT
      [] OTHER -> W_IDENTITY

\* exactly one key column, which is an identity column of integer type
hasSingleAutoincrementKey(cols) ==
    /\ NumPkCols(cols) = 1
    /\ \E i \in 1..Len(cols) : cols[i].is_pk /\ cols[i].is_identity /\ TypeIn(cols[i], IntegerFamily)

HasPkClause(defs) == \E i \in 1..Len(defs) : StartsWith(defs[i], W_PRIMARY_KEY)

\* C16: in every CREATE TABLE, a single auto-increment key is declared inside
\* its column definition with the auto-increment syntax of the dialect and
\* there is no PRIMARY KEY (...) clause; for any other table the last
\* element is a PRIMARY KEY (...) clause that names every key column (when
\* there is one) and no column definition has the auto-increment syntax.
C16_PrimaryKeyRendering ==
    \A s \in 1..Len(statements) :
        statements[s].kind = "create_table" =>
            LET defs == statements[s].col_defs
                n == Len(columns)
            IN  IF hasSingleAutoincrementKey(columns)
                THEN /\ \A i \in 1..n : columns[i].is_pk =>
                            ContainsSub(defs[i], AutoSyntax(dialect))
                     /\ ~HasPkClause(defs)
                ELSE /\ \A i \in 1..n : ~ContainsSub(defs[i], AutoSyntax(dialect))
                     /\ NumPkCols(columns) > 0 =>
                            /\ Len(defs) = n + 1
                            /\ StartsWith(defs[n + 1], W_PRIMARY_KEY)
                            /\ \A i \in 1..n : columns[i].is_pk =>
                                   ContainsSub(defs[n + 1], NameText[columns[i].name])

\* the index-entry budget of the MySQL-like target and the widest character
KeyBudget == 767

BytesPerChar == 4

\* the number of characters a rendered MySQL type declares, 0 when it has none
DeclaredChars(type) ==
    LET open == {i \in 1..Len(type) : type[i] = "("} IN
    IF open # {} /\ type[Len(type)] = ")"
       /\ IsInt(SubSeq(type, (CHOOSE i \in open : TRUE) + 1, Len(type) - 1))
    THEN IntValue(SubSeq(type, (CHOOSE i \in open : TRUE) + 1, Len(type) - 1))
    ELSE 0

\* a rendered character type whose values may not fit an index entry
ExceedsBudget(type) ==
    type = W_TEXT \/ DeclaredChars(type) * BytesPerChar > KeyBudget

CharacterTypes == {"varchar", "nvarchar", "char", "nchar", "hierarchyid"}

\* C17: in the CREATE TABLE sent to MySQL, every key column of character type
\* whose rendered type is TEXT or declares more characters than fit into 767
\* bytes at 4 bytes per character is named in the PRIMARY KEY clause with a
\* prefix length p such that 4 * p <= 767.
C17_KeyPrefixFitsBudget ==
    \A s \in 1..Len(statements) :
        (dialect = "mysql" /\ statements[s].kind = "create_table") =>
            LET defs == statements[s].col_defs IN
            \A i \in 1..Len(columns) :
                (/\ columns[i].is_pk
                 /\ TypeIn(columns[i], CharacterTypes)
                 /\ ExceedsBudget(convert_type_mssql_to_mysql(TypeText[columns[i].data_type],
                        columns[i].max_length, columns[i].precision, columns[i].scale)))
                    => \E p \in 1..(KeyBudget \div BytesPerChar) :
                           ContainsSub(defs[Len(defs)],
                                       WithArg(BackQuoted(columns[i].name), IntText(p)))

-----------------------------------------------------------------------------
(* The end-to-end scenario *)

EndsWith(text, word) ==
    Len(text) >= Len(word) /\ SubSeq(text, Len(text) - Len(word) + 1, Len(text)) = word

\* the column definitions of the CREATE TABLE statements sent so far
CreatedDefs == {statements[s].col_defs : s \in {i \in 1..Len(statements) :
                                                   statements[i].kind = "create_table"}}

W_KEY == <<"P", "R", "I", "M", "A", "R", "Y", " ", "K", "E", "Y">>

\* the definition declares an auto-increment column that is the primary key
DeclaresAutoKey(defs, def) ==
    /\ ContainsSub(def, AutoSyntax(dialect))
    /\ \/ ContainsSub(def, W_KEY)
       \/ \E k \in 1..Len(defs) : /\ StartsWith(defs[k], W_PRIMARY_KEY)
                                  /\ ContainsSub(defs[k], NameText["ID"])

\* a type with a length in parentheses, as in VARCHAR(50)
LengthQualified(def) ==
    \E i \in 1..Len(def) : \E j \in (i + 2)..Len(def) :
        /\ def[i] = "(" /\ def[j] = ")"
        /\ \A k \in (i + 1)..(j - 1) : IsDigit(def[k])

\* the types a dialect stores a truth value in
BooleanTypes(d) ==
    CASE d = "pg" -> {<<"B", "O", "O", "L", "E", "A", "N">>}
      [] d = "mysql" -> {<<"B", "I", "T">>, <<"T", "I", "N", "Y", "I", "N", "T">>,
                         <<"T", "I", "N", "Y", "I", "N", "T", "(", "1", ")">>}
      [] d = "sqlite" -> {<<"I", "N", "T", "E", "G", "E", "R">>}
      [] OTHER -> {<<"B", "I", "T">>}

DeclaresBoolean(def) == \E w \in BooleanTypes(dialect) : EndsWith(def, <<" ">> \o w)

FalseLiteral(d) == IF d = "pg" THEN W_FALSE ELSE <<"0">>

\* the three rows are emitted in order, each with its ID and Name, and the row
\* without a Flag carries NULL and not the false literal
RowsEmitted ==
    /\ Len(batch_values) = 3
    /\ \A r \in 1..3 :
         /\ StartsWith(batch_values[r],
                       <<"(">> \o logicalRows[r][1] \o <<",", " ">> \o Quoted(logicalRows[r][2])
                               \o <<",", " ">>)
         /\ logicalRows[r][3] = W_NULL
               => /\ EndsWith(batch_values[r], <<",", " ">> \o W_NULL \o <<")">>)
                  /\ ~EndsWith(batch_values[r], <<",", " ">> \o FalseLiteral(dialect) \o <<")">>)
         /\ logicalRows[r][3] # W_NULL
               => ~EndsWith(batch_values[r], <<",", " ">> \o W_NULL \o <<")">>)

-----------------------------------------------------------------------------
(* Pagination *)

\* the first key column in declaration order, or the first column that is not xml
FirstKeyOrPlainColumn(cols) ==
    LET keys   == {i \in 1..Len(cols) : cols[i].is_pk}
        plains == {i \in 1..Len(cols) : cols[i].data_type # "xml"}
        first(S) == CHOOSE i \in S : \A j \in S : i <= j
    IN  IF keys # {} THEN cols[first(keys)].name ELSE cols[first(plains)].name

\* the pages that returned row r
PagesOf(r) == {p \in 1..Len(pages) : \E k \in 1..Len(pages[p]) : pages[p][k] = r}

\* C18: every page of a transfer is ordered by the first key column (or the
\* first non-xml column of a table without key), and when the loop has ended
\* every source row was returned by exactly one page query, also when the
\* key is composite and the ordering column is not unique.
C18_PagingGapFree ==
    /\ pages # <<>> =>
          /\ order_by_col = FirstKeyOrPlainColumn(columns)
          /\ \A p \in 1..Len(pages) : \A k \in 1..(Len(pages[p]) - 1) :
                SourceRow(pages[p][k])[order_by_col] <= SourceRow(pages[p][k + 1])[order_by_col]
    /\ pc = "paged" => \A r \in 1..total_rows : Cardinality(PagesOf(r)) = 1

-----------------------------------------------------------------------------
(* The count of copied rows *)

\* C19: in a batch transfer copied_count grows only by rows the target accepted,
\* so it never exceeds the rows this transfer inserted, and with a target that
\* was empty or cleared at the start it never exceeds the rows of the target
\* table, neither during the transfer nor in the returned count.
C19_CopiedCountsAcceptedRows ==
    dialect \in BatchDialects =>
        /\ copied_count <= tgtNew
        /\ tgtStale = 0 => copied_count <= TargetCount
        /\ (pc = "done" /\ tgtStale = 0 /\ jobState = "Completed") => result.rows <= TargetCount

-----------------------------------------------------------------------------
(* A NULL sent to a NOT NULL column *)

\* an INSERT of the page loop was rejected because of a NULL in a NOT NULL column
NullRejected ==
    /\ issued'.insert = issued.insert + 1
    /\ insert_code' = "fail"
    /\ insert_result' = DiagColumnNull

\* C20: when the target rejects a chunk because a NOT NULL column of the
\* numeric, date/time or binary family was sent NULL, the transfer goes on
\* with its loop, the job does not fail, and the rows of the chunk are not
\* added to copied_count, whatever the diagnostic says (also when it names a
\* column whose name contains "key").
C20_NullRejectionIsChunkError ==
    [][NullRejected => /\ pc' \in {"insert", "loop"}
                       /\ jobState' = jobState
                       /\ copied_count' = copied_count]_vars

-----------------------------------------------------------------------------
(* Identity override *)

SomeIdentityColumn == \E i \in 1..Len(columns) : columns[i].is_identity

\* C21: the same-dialect transfer of a table with an identity column sends
\* SET IDENTITY_INSERT ON right before its INSERT and SET IDENTITY_INSERT OFF
\* right after it in the same script, whatever the INSERT answers, and the
\* setting is off when the call has returned; without identity column it
\* sends neither.  The PostgreSQL transfer appends OVERRIDING SYSTEM VALUE to
\* an INSERT exactly when the table has an identity column; the MySQL and
\* SQLite transfers send plain INSERTs only.
C21_IdentityOverride ==
    /\ (dialect = "mssql" /\ script # <<>>) =>
          IF SomeIdentityColumn
             THEN /\ script = <<[kind |-> "identity_insert", arg |-> "ON"],
                                [kind |-> "insert", arg |-> ""],
                                [kind |-> "identity_insert", arg |-> "OFF"]>>
                  /\ ran >= 2
                  /\ pc = "returned" => identity_insert = "off"
             ELSE /\ script = <<[kind |-> "insert", arg |-> ""]>>
                  /\ identity_insert = "off"
    /\ dialect \in BatchDialects =>
          /\ identity_insert = "off"
          /\ \A i \in 1..Len(script) :
                /\ script[i].kind = "insert"
                /\ script[i].arg = IF dialect = "pg" /\ SomeIdentityColumn
                                      THEN "OVERRIDING SYSTEM VALUE" ELSE ""

C21_Witness ==
    /\ dialect = "mssql"
    /\ SomeIdentityColumn
    /\ ~columns[1].is_identity
    /\ pc = "returned"
    /\ ran = 2

-----------------------------------------------------------------------------
(* Properties of the type resolvers, by family of source type *)

\* the widest length a dialect accepts in the declaration of a character type
MaxFieldWidth(d, base) ==
    CASE d = "mysql" /\ base = <<"C", "H", "A", "R">> -> 255
      [] d = "mysql" -> 65535
      [] d = "pg" -> 10485760
      [] OTHER -> 1000000000

\* the name of a rendered type, without its arguments
BaseName(type) ==
    LET open == {i \in 1..Len(type) : type[i] = "("} IN
    IF open = {} THEN type
    ELSE SubSeq(type, 1, (CHOOSE i \in open : \A j \in open : i <= j) - 1)

\* a length in characters as the dialect declares it: MySQL declares the
\* national character types at 4 bytes per character
WidenedLength(d, key, n) ==
    IF d = "mysql" /\ key \in {"nvarchar", "nchar"} THEN n * 4 ELSE n

StringTypes == {"char", "varchar", "nchar", "nvarchar"}

ResolvedKey == KeyOf(Lower(resolveArgs.mssql_type))

ResolvedString ==
    /\ pc = "resolved"
    /\ InMapping(Lower(resolveArgs.mssql_type))
    /\ ResolvedKey \in StringTypes

\* C22: a character type without max length or with max length '-1' resolves
\* to TEXT in every dialect; with a max length n it resolves to a
\* length-qualified type that declares the widened n and no more than the
\* dialect accepts for that type, and to TEXT when the widened n is more than
\* the dialect accepts.
C22_CharacterLengths ==
    ResolvedString =>
        LET max_length == resolveArgs.max_length IN
        IF max_length \in {None, W_minus1} THEN declared = W_TEXT
        ELSE IsInt(max_length) =>
            LET w == WidenedLength(dialect, ResolvedKey, IntValue(max_length)) IN
            \/ /\ declared = W_TEXT
               /\ w > MaxFieldWidth(dialect, TYPE_MAPPING[ResolvedKey][dialect])
            \/ /\ LengthQualified(declared)
               /\ DeclaredChars(declared) = w
               /\ w <= MaxFieldWidth(dialect, BaseName(declared))

-----------------------------------------------------------------------------
(* Properties of the serialization of binary values *)

\* the hexadecimal digits of a field value, in upper case, without its 0x
HexDigitsOf(v) ==
    LET body == IF Len(v) >= 2 /\ v[1] = "0" /\ v[2] = "x" THEN SubSeq(v, 3, Len(v)) ELSE v
    IN  SelectSeq(Upper(body), LAMBDA c : c \in HexChars)

\* how a dialect writes the bytes with the hexadecimal digits hex: MySQL
\* UNHEX('..'), SQLite X'..', PostgreSQL decode('..', 'hex') or '\x..'::BYTEA
HexLiterals(d, hex) ==
    CASE d = "mysql" -> {<<"U", "N", "H", "E", "X", "(", "'">> \o hex \o <<"'", ")">>}
      [] d = "sqlite" -> {<<"X", "'">> \o hex \o <<"'">>}
      [] OTHER -> {<<"d", "e", "c", "o", "d", "e", "(", "'">> \o hex
                      \o <<"'", ",", " ", "'", "h", "e", "x", "'", ")">>,
                   <<"'", "\\", "x">> \o hex \o <<"'", ":", ":", "B", "Y", "T", "E", "A">>}

BinaryValueRendered ==
    /\ pc = "rendered"
    /\ col.data_type \in BinaryTypes
    /\ Strip(val) \notin {<<>>, W_NULL}
    /\ HexDigitsOf(Strip(val)) # <<>>

\* C23: a varbinary, image or timestamp value that is not empty is rendered,
\* in every dialect, as the dialect's hexadecimal literal of exactly the
\* hexadecimal digits of the value, the 0x and every other character removed.
C23_BinaryHexLiteral ==
    BinaryValueRendered => literal \in HexLiterals(dialect, HexDigitsOf(Strip(val)))

\* the source types without an equivalent in the targets
AnalogueTypes == {"xml", "hierarchyid", "uniqueidentifier", "timestamp"}

\* the types of a target that are of the same kind as one of these source types
NativeTypes == {<<"X", "M", "L">>, <<"U", "U", "I", "D">>}

ResolvedAnalogue ==
    /\ pc = "resolved"
    /\ InMapping(Lower(resolveArgs.mssql_type))
    /\ ResolvedKey \in AnalogueTypes

\* C24 as stated: xml, hierarchyid, uniqueidentifier and timestamp resolve in
\* every dialect to the type of the mapping table (TEXT where the table names a
\* native type), never to XML or UUID, and to the same type whatever the
\* max length is.
C24_AnaloguesAsStated ==
    ResolvedAnalogue =>
        /\ declared \notin NativeTypes
        /\ \/ declared = TYPE_MAPPING[ResolvedKey][dialect]
           \/ TYPE_MAPPING[ResolvedKey][dialect] \in NativeTypes /\ declared = W_TEXT
        /\ declared = convert_type(dialect, resolveArgs.mssql_type, None,
                                   resolveArgs.precision, resolveArgs.scale)

\* C24: xml resolves to TEXT in every dialect; hierarchyid resolves for MySQL
\* to VARCHAR(max length) when a max length other than '-1' is given; in every
\* other case the four types resolve to the type of the mapping table, which
\* is UUID for uniqueidentifier in PostgreSQL and never XML; precision and
\* scale play no part.
C24_Analogues ==
    ResolvedAnalogue =>
        /\ declared # <<"X", "M", "L">>
        /\ declared =
              IF ResolvedKey = "xml" THEN W_TEXT
              ELSE IF /\ dialect = "mysql" /\ ResolvedKey = "hierarchyid"
                      /\ resolveArgs.max_length \notin {None, W_minus1}
                   THEN <<"V", "A", "R", "C", "H", "A", "R", "(">> \o resolveArgs.max_length \o <<")">>
              ELSE TYPE_MAPPING[ResolvedKey][dialect]

\* HIERARCHYID with max length 50 resolved for MySQL
C24_Witness ==
    /\ ResolvedAnalogue
    /\ dialect = "mysql"
    /\ resolveArgs.mssql_type = Upper(TypeText["hierarchyid"])
    /\ resolveArgs.max_length = <<"5", "0">>
    /\ declared = <<"V", "A", "R", "C", "H", "A", "R", "(", "5", "0", ")">>

ExactNumericTypes == {"decimal", "numeric"}

ResolvedExactNumeric ==
    /\ pc = "resolved"
    /\ InMapping(Lower(resolveArgs.mssql_type))
    /\ ResolvedKey \in ExactNumericTypes

\* the name with (precision,scale), with (precision), or bare
CarriedThrough(name, precision, scale) ==
    IF precision # None /\ scale # None
    THEN name \o <<"(">> \o precision \o <<",">> \o scale \o <<")">>
    ELSE IF precision # None THEN name \o <<"(">> \o precision \o <<")">>
    ELSE name

\* C25 as stated: in every dialect decimal and numeric resolve to the mapped
\* type with (precision,scale) when both are given, with (precision) when only
\* the precision is given, and to the bare name otherwise.
C25_ExactNumericAsStated ==
    ResolvedExactNumeric =>
        declared = CarriedThrough(TYPE_MAPPING[ResolvedKey][dialect],
                                  resolveArgs.precision, resolveArgs.scale)

\* C25: for PostgreSQL and MySQL decimal and numeric resolve to the mapped
\* type with (precision,scale) when both are given, scale 0 included, with
\* (precision) when only the precision is given, and to the bare name
\* otherwise; for SQLite they resolve to REAL whatever precision and scale are.
C25_ExactNumeric ==
    ResolvedExactNumeric =>
        declared = IF dialect = "sqlite" THEN <<"R", "E", "A", "L">>
                   ELSE CarriedThrough(TYPE_MAPPING[ResolvedKey][dialect],
                                       resolveArgs.precision, resolveArgs.scale)

\* NUMERIC with precision 10 and scale 0 resolved for MySQL
C25_Witness ==
    /\ ResolvedExactNumeric
    /\ dialect = "mysql"
    /\ resolveArgs.mssql_type = Upper(TypeText["numeric"])
    /\ resolveArgs.precision = <<"1", "0">>
    /\ resolveArgs.scale = <<"0">>
    /\ declared = TYPE_MAPPING["numeric"].mysql \o <<"(", "1", "0", ",", "0", ")">>

\* the type names of the pg column of the mapping table
PgTypeNames == {BaseName(TYPE_MAPPING[k].pg) : k \in DOMAIN TYPE_MAPPING}

\* C30: whatever the source type, max length, precision and scale are, the
\* name of the type convert_type_mssql_to_pg returns is TEXT or a name of the
\* pg column of the mapping table.
C30_PgEmitsPgTypes ==
    (pc = "resolved" /\ dialect = "pg") => BaseName(declared) \in PgTypeNames \cup {W_TEXT}

-----------------------------------------------------------------------------
(* The count returned with success *)

\* C26: a batch transfer that entered the page loop and returns success
\* returns the number of rows the source table had at its start.
C26_SuccessCopiesAllRows ==
    (/\ dialect \in BatchDialects
     /\ pc = "done"
     /\ jobState = "Completed"
     /\ result.success)
        => result.rows = total_rows

-----------------------------------------------------------------------------
(* Conservation of the rows of a page *)

\* C27: the rows parsed from a page are as many as the rows the source
\* serialized into it, whatever their fields are.
C27_RowConservation ==
    pc = "parsed" => Len(rows) = Len(logicalRows)

\* the rows of the page whose first or last field is the empty text
EmptyEdgeRows ==
    {r \in 1..Len(logicalRows) :
        logicalRows[r][1] = <<>> \/ logicalRows[r][Len(logicalRows[r])] = <<>>}

\* C28: in a page without wrapped row, a row whose first or last field is the
\* empty text is parsed into its own fields, the empty one empty, and the row
\* after it is parsed as it is.
C28_EmptyEdgeField ==
    (pc = "parsed" /\ wrapped.row = 0) =>
        \A r \in EmptyEdgeRows :
            /\ \E i \in 1..Len(rows) : rows[i] = logicalRows[r]
            /\ r < Len(logicalRows) => \E i \in 1..Len(rows) : rows[i] = logicalRows[r + 1]

\* the column definition declares the column itself as the primary key
InlineKey(def) == ContainsSub(def, <<"P", "R", "I", "M", "A", "R", "Y", " ", "K", "E", "Y">>)

\* the trailing PRIMARY KEY clause of the definitions names the column
InKeyClause(defs, n, name) ==
    /\ Len(defs) = n + 1
    /\ StartsWith(defs[n + 1], W_PRIMARY_KEY)
    /\ ContainsSub(defs[n + 1], BackQuoted(name))

\* C29: in the CREATE TABLE sent to SQLite or MySQL every key column is
\* declared as the primary key either in its own definition or in the trailing
\* PRIMARY KEY clause, never in both and never in neither.
C29_KeyDeclaredOnce ==
    \A s \in 1..Len(statements) :
        (dialect \in {"sqlite", "mysql"} /\ statements[s].kind = "create_table") =>
            LET defs == statements[s].col_defs
                n == Len(columns)
            IN  \A i \in 1..n : columns[i].is_pk =>
                    InlineKey(defs[i]) # InKeyClause(defs, n, columns[i].name)

=============================================================================
